---- MODULE Spec2Model ----
(***************************************************************************)
(* Collaboration engine of SmallTown_Writer: the socket.io broker          *)
(* (server.ts), the collaboration service's operation functions, the       *)
(* editor's message handler and the localStorage peer transport.           *)
(*                                                                         *)
(* Strings are sequences of one-character strings.  An optional value      *)
(* (a JavaScript field that may be undefined) is a sequence of length at   *)
(* most one: <<>> is undefined, <<v>> is the value v.                      *)
(***************************************************************************)
EXTENDS Integers, Sequences, FiniteSets, Bags, TLC

VARIABLES
  sessions,     \* broker: sessionId -> [users, content]   (const sessions)
  sock,         \* broker: per socket closure state and rooms
  emitted,      \* broker: what the last handler emitted, in order
  call,         \* broker: the last handler run and its arguments (history)
  doc,          \* collaboration service document: [init, content, operations]
  cl,           \* editor clients of the broker session
  up,           \* client -> broker events in flight, per socket
  down,         \* broker -> client events in flight, per socket
  relayLog,     \* history: FullSync contents in broker relay order
  store,        \* local transport: the shared localStorage
  tab,          \* local transport: per browser tab client state
  pend,         \* local transport: undelivered storage events per tab
  clock,        \* local transport: Date.now() and the number of time steps
  ot,           \* collaboration service: a transformOperation/validateOperation call
  hist,         \* collaboration service: the operation histories
  conn,         \* broker client: the attempts of one connect() call
  rx,           \* a transport client dispatching received messages
  ed            \* editor: the participant list it exposes, and its connection

vars == <<sessions, sock, emitted, call, doc, cl, up, down, relayLog, store, tab, pend,
          clock, ot, hist, conn, rx, ed>>

brokerVars == <<sessions, sock, emitted, call>>
collabVars == <<cl, up, down, relayLog>>
serviceVars == <<ot, hist, conn, rx, ed>>
nonBrokerVars == <<doc, cl, up, down, relayLog, store, tab, pend, clock, serviceVars>>
nonLocalVars == <<sessions, sock, emitted, call, doc, cl, up, down, relayLog, serviceVars>>
localVars  == <<store, tab, pend, clock>>

(***************************************************************************)
(* Bounds of the model and program constants                               *)
(***************************************************************************)
MAX_USERS_PER_SESSION == 8

NumPrefilled == 7
NumDynamic == 2
MaxPos == 3
MaxOps == 3
MaxEdits == 2
MaxLocalOps == 3
MaxBacklog == 2
MaxContentLen == 2

None == <<>>
Some(v) == <<v>>

\* Date.now() when the model starts
StartClock == [now |-> 1, ticks |-> 0]

Min(a, b) == IF a < b THEN a ELSE b
Max(a, b) == IF a > b THEN a ELSE b

Letters == <<"a", "b", "c", "d", "e", "f", "g", "h", "i", "j", "k", "l", "m">>

\* String.prototype.toLowerCase on the alphabet of the model
LowerChar(c) ==
  CASE c = "A" -> "a"
    [] c = "B" -> "b"
    [] OTHER -> c

ToLowerCase(s) == [i \in DOMAIN s |-> LowerChar(s[i])]

\* String.prototype.substring: arguments are clamped to [0, length] and
\* swapped when start > end
ClampIndex(n, len) == IF n < 0 THEN 0 ELSE IF n > len THEN len ELSE n

Substring(s, a, b) ==
  LET x == ClampIndex(a, Len(s))
      y == ClampIndex(b, Len(s))
  IN SubSeq(s, Min(x, y) + 1, Max(x, y))

SubstringFrom(s, a) == Substring(s, a, Len(s))

\* JavaScript truthiness of an optional string / an optional number
TruthyStr(o) == o # None /\ o[1] # <<>>
TruthyNum(o) == o # None /\ o[1] # 0

\* Array.prototype.findIndex on a user list by id; 0 stands for -1
FindIndex(users, id) ==
  IF \E i \in DOMAIN users : users[i].id = id
  THEN CHOOSE i \in DOMAIN users :
         users[i].id = id /\ \A j \in 1..(i - 1) : users[j].id # id
  ELSE 0

\* Array.prototype.splice(i, 1)
RemoveAt(seq, i) == SubSeq(seq, 1, i - 1) \o SubSeq(seq, i + 1, Len(seq))

Ids(users) == {users[i].id : i \in DOMAIN users}

UniqueIds(users) ==
  \A i, j \in DOMAIN users : users[i].id = users[j].id => i = j

(***************************************************************************)
(* Text operations (collaborationService)                                  *)
(***************************************************************************)
Op(type, userId, position, text, length, content) ==
  [type |-> type, userId |-> userId, position |-> position, text |-> text,
   length |-> length, content |-> content]

InsertOp(u, p, t) == Op("insert", u, Some(p), Some(t), None, None)
DeleteOp(u, p, n) == Op("delete", u, Some(p), None, Some(n), None)
SyncOp(u, c) == Op("sync", u, None, None, None, Some(c))

\* applyOperation(content, operation)
ApplyOperation(content, operation) ==
  IF operation.type = "insert" /\ TruthyStr(operation.text)
     /\ operation.position # None
  THEN Substring(content, 0, operation.position[1])
         \o operation.text[1]
         \o SubstringFrom(content, operation.position[1])
  ELSE IF operation.type = "delete" /\ TruthyNum(operation.length)
          /\ operation.position # None
  THEN Substring(content, 0, operation.position[1])
         \o SubstringFrom(content, operation.position[1] + operation.length[1])
  ELSE IF operation.type = "sync" /\ TruthyStr(operation.content)
  THEN operation.content[1]
  ELSE content

(***************************************************************************)
(* Broker (socket.io server)                                               *)
(***************************************************************************)
NumSockets == NumPrefilled + NumDynamic
Sockets == 1..NumSockets
DynamicSockets == (NumPrefilled + 1)..NumSockets
SessionIds == {"s1", "s2"}
Chars == {"a", "b"}

Contents == UNION {[1..n -> Chars] : n \in 0..MaxContentLen}

NameOf(uid) == <<Letters[uid]>>

\* the user object built by the join handler; color, lastActive and socketId
\* are written there and read nowhere in the broker, and are left out
NewUser(userId, userName, s) ==
  [id |-> userId, name |-> userName, status |-> "active",
   cursorPosition |-> None, selection |-> None]

\* { ...existing, ...user }
MergeUser(existing, user) ==
  [user EXCEPT !.cursorPosition = existing.cursorPosition,
               !.selection = existing.selection]

EmptySession == [users |-> <<>>, content |-> <<>>, lastUpdated |-> clock.now]

\* sessions[sessionId] after "create or get"
GetOrCreate(sid) == IF sid \in DOMAIN sessions THEN sessions[sid] ELSE EmptySession

\* variant: the list may grow to one more than the maximum
SessionFullStrict(session) == Len(session.users) > MAX_USERS_PER_SESSION

\* session.users.length >= MAX_USERS_PER_SESSION
SessionFull(session) == Len(session.users) >= MAX_USERS_PER_SESSION

\* variant: the name is looked for under the joiner's own id
IsDuplicateNameSameId(session, userId, userName) ==
  \E i \in DOMAIN session.users :
    /\ ToLowerCase(session.users[i].name) = ToLowerCase(userName)
    /\ session.users[i].id = userId

\* session.users.some(u => u.name.toLowerCase() === userName.toLowerCase()
\*                         && u.id !== userId)
IsDuplicateName(session, userId, userName) ==
  \E i \in DOMAIN session.users :
    /\ ToLowerCase(session.users[i].name) = ToLowerCase(userName)
    /\ session.users[i].id # userId

\* update the entry found by id, or push a new one
UpsertUser(users, user) ==
  LET i == FindIndex(users, user.id)
  IN IF i # 0
     THEN [users EXCEPT ![i] = MergeUser(users[i], user)]
     ELSE Append(users, user)

Emit(to, event, data) == [to |-> to, event |-> event, data |-> data]

\* the sockets an io.to(sessionId).emit reaches, given the socket table
Room(table, sid) == {s \in Sockets : table[s].open /\ sid \in table[s].rooms}

JoinMsg(user) == [type |-> "join", payload |-> [user |-> user]]
SyncMsg(users, content) ==
  [type |-> "sync", payload |-> [users |-> users, content |-> content]]
LeaveMsg(userId) == [type |-> "leave", payload |-> [userId |-> userId]]
AckFail(error) == [success |-> FALSE, error |-> error]
AckOk(sid, userId) == [success |-> TRUE, sessionId |-> sid, userId |-> userId]

\* socket.on('join')
Join(s, sid, userId, userName) ==
  /\ sock[s].open
  /\ call' = [kind |-> "join", s |-> s, sid |-> sid, userId |-> userId,
              userName |-> userName]
  /\ LET session == GetOrCreate(sid)
         created == (sid :> session) @@ sessions
     IN IF SessionFull(session)
        THEN /\ sessions' = created
             /\ emitted' = <<Emit({s}, "connection_ack", AckFail("full"))>>
             /\ UNCHANGED sock
        ELSE IF IsDuplicateName(session, userId, userName)
        THEN /\ sessions' = created
             /\ emitted' = <<Emit({s}, "connection_ack", AckFail("name"))>>
             /\ UNCHANGED sock
        ELSE LET user == NewUser(userId, userName, s)
                 users2 == UpsertUser(session.users, user)
                 table == [sock EXCEPT
                             ![s].currentUser = Some([id |-> userId]),
                             ![s].currentSessionId = Some(sid),
                             ![s].rooms = @ \cup {sid}]
             IN /\ sessions' = (sid :> [session EXCEPT !.users = users2]) @@ sessions
                /\ sock' = table
                /\ emitted' =
                     << Emit(Room(table, sid), "message", JoinMsg(user)),
                        Emit({s}, "message", SyncMsg(users2, Some(session.content))),
                        Emit({s}, "connection_ack", AckOk(sid, userId)) >>

SetUserField(session, userId, field, value) ==
  LET i == FindIndex(session.users, userId)
  IN IF i = 0 THEN session
     ELSE [session EXCEPT !.users[i] = [@ EXCEPT ![field] = value]]

\* variant: the operation type is compared with a name no client sends
OperationCaseWrongType(session, message) ==
  IF /\ message.payload.operation # None
     /\ message.payload.operation[1].type = "fullsync"
     /\ TruthyStr(message.payload.operation[1].content)
  THEN [session EXCEPT !.content = message.payload.operation[1].content[1],
                       !.lastUpdated = clock.now]
  ELSE session

\* case 'operation': only a sync with truthy content is stored
OperationCase(session, message) ==
  IF /\ message.payload.operation # None
     /\ message.payload.operation[1].type = "sync"
     /\ TruthyStr(message.payload.operation[1].content)
  THEN [session EXCEPT !.content = message.payload.operation[1].content[1],
                       !.lastUpdated = clock.now]
  ELSE session

\* case 'content'
ContentCase(session, message) ==
  IF message.payload.content # None
  THEN [session EXCEPT !.content = message.payload.content[1],
                       !.lastUpdated = clock.now]
  ELSE session

\* the switch of socket.on('message')
BrokerApplyMessage(session, message) ==
  CASE message.type = "operation" -> OperationCase(session, message)
    [] message.type = "content" -> ContentCase(session, message)
    [] message.type = "cursor" ->
         IF message.payload.userId # None
         THEN SetUserField(session, message.payload.userId[1], "cursorPosition",
                           Some(message.payload.position))
         ELSE session
    [] message.type = "selection" ->
         IF message.payload.userId # None
         THEN SetUserField(session, message.payload.userId[1], "selection",
                           Some(<<message.payload.start, message.payload.end>>))
         ELSE session
    [] message.type = "status" ->
         IF message.payload.userId # None /\ message.payload.status # None
         THEN SetUserField(session, message.payload.userId[1], "status",
                           message.payload.status[1])
         ELSE session
    [] message.type = "activity" ->
         IF message.payload.userId # None
         THEN SetUserField(session, message.payload.userId[1], "status", "active")
         ELSE session
    [] OTHER -> session

\* socket.on('message')
Message(s, message) ==
  /\ sock[s].open
  /\ sock[s].currentSessionId # None
  /\ sock[s].currentUser # None
  /\ call' = [kind |-> "message", s |-> s, message |-> message]
  /\ LET sid == sock[s].currentSessionId[1]
     IN /\ sid \in DOMAIN sessions
        /\ sessions' = [sessions EXCEPT ![sid] = BrokerApplyMessage(@, message)]
        /\ emitted' = <<Emit(Room(sock, sid), "message", message)>>
        /\ UNCHANGED sock

\* socket.on('request_sync')
RequestSync(s) ==
  /\ sock[s].open
  /\ sock[s].currentSessionId # None
  /\ sock[s].currentUser # None
  /\ call' = [kind |-> "request_sync", s |-> s]
  /\ LET sid == sock[s].currentSessionId[1]
     IN /\ sid \in DOMAIN sessions
        /\ emitted' = <<Emit({s}, "message",
                             SyncMsg(sessions[sid].users, Some(sessions[sid].content)))>>
        /\ UNCHANGED <<sessions, sock>>

\* socket.on('disconnect'): the socket has left its rooms when it runs
Disconnect(s) ==
  /\ sock[s].open
  /\ call' = [kind |-> "disconnect", s |-> s]
  /\ LET table == [sock EXCEPT ![s].open = FALSE, ![s].rooms = {}]
     IN /\ sock' = table
        /\ IF sock[s].currentSessionId # None /\ sock[s].currentUser # None
              /\ sock[s].currentSessionId[1] \in DOMAIN sessions
           THEN LET sid == sock[s].currentSessionId[1]
                    i == FindIndex(sessions[sid].users, sock[s].currentUser[1].id)
                    users2 == RemoveAt(sessions[sid].users, i)
                IN IF i # 0
                   THEN /\ sessions' = [sessions EXCEPT ![sid].users = users2]
                        /\ emitted' =
                             << Emit(Room(table, sid), "message",
                                     LeaveMsg(sock[s].currentUser[1].id)),
                                Emit(Room(table, sid), "message",
                                     SyncMsg(users2, None)) >>
                   ELSE /\ emitted' = <<>>
                        /\ UNCHANGED sessions
           ELSE /\ emitted' = <<>>
                /\ UNCHANGED sessions

\* variant: the registry entry is written whether or not the session exists
ApiCreateSessionOverwrite(sid, content) ==
  /\ sessions' = (sid :> [users |-> <<>>, content |-> content,
                           lastUpdated |-> clock.now]) @@ sessions
  /\ emitted' = <<>>
  /\ call' = [kind |-> "api_create", sid |-> sid]
  /\ UNCHANGED sock

\* app.post('/api/sessions'): content is req.body.content || ''
ApiCreateSession(sid, content) ==
  /\ sessions' = IF sid \in DOMAIN sessions THEN sessions
                 ELSE (sid :> [users |-> <<>>, content |-> content,
                               lastUpdated |-> clock.now]) @@ sessions
  /\ emitted' = <<>>
  /\ call' = [kind |-> "api_create", sid |-> sid]
  /\ UNCHANGED sock

(***************************************************************************)
(* The broker driven by arbitrary client events                            *)
(***************************************************************************)
IdleSocket == [open |-> TRUE, currentUser |-> None, currentSessionId |-> None,
               rooms |-> {}]

JoinedSocket(userId, userName, sid) ==
  [open |-> TRUE, currentUser |-> Some([id |-> userId]),
   currentSessionId |-> Some(sid), rooms |-> {sid}]

\* the session "s1" after sockets 1..NumPrefilled joined it in order
PrefilledSessions ==
  "s1" :> [users |-> [k \in 1..NumPrefilled |-> NewUser(k, NameOf(k), k)],
           content |-> <<>>, lastUpdated |-> StartClock.now]

PrefilledSockets ==
  [s \in Sockets |-> IF s <= NumPrefilled THEN JoinedSocket(s, NameOf(s), "s1")
                     ELSE IdleSocket]

\* inputs of the events
JoinUserIds(s) == {1, s}
JoinNames(userId) == {NameOf(userId), <<"A">>}
MessageSockets == {1} \cup DynamicSockets
DisconnectSockets == {1, 2} \cup DynamicSockets

OperationMsg(o) == [type |-> "operation", payload |-> [operation |-> o]]
ContentMsg(c) == [type |-> "content", payload |-> [content |-> c]]
CursorMsg(u, p) == [type |-> "cursor", payload |-> [userId |-> u, position |-> p]]
SelectionMsg(u, a, b) ==
  [type |-> "selection", payload |-> [userId |-> u, start |-> a, end |-> b]]
StatusMsg(u, st) == [type |-> "status", payload |-> [userId |-> u, status |-> st]]
ActivityMsg(u) == [type |-> "activity", payload |-> [userId |-> u]]
HeartbeatMsg(u) == [type |-> "heartbeat", payload |-> [userId |-> u]]
LeaveRequest(u) == [type |-> "leave", payload |-> [userId |-> u]]

\* messages of the membership runs: presence and cursor of user 1, one edit
BrokerMessages ==
  { OperationMsg(Some(SyncOp(1, <<"a">>))),
    CursorMsg(Some(1), 1),
    StatusMsg(Some(1), Some("away")),
    HeartbeatMsg(Some(1)) }

QuietDoc == [init |-> <<>>, content |-> <<>>, operations |-> <<>>]

BrokerInit ==
  /\ sessions = PrefilledSessions
  /\ sock = PrefilledSockets
  /\ emitted = <<>>
  /\ call = [kind |-> "none"]
  /\ doc = QuietDoc
  /\ cl = <<>>
  /\ up = <<>>
  /\ down = <<>>
  /\ relayLog = <<>>
  /\ store = <<>>
  /\ tab = <<>>
  /\ pend = <<>>
  /\ clock = StartClock
  /\ ot = <<>>
  /\ hist = <<>>
  /\ conn = <<>>
  /\ rx = <<>>
  /\ ed = <<>>

BrokerJoin ==
  /\ \E s \in DynamicSockets : \E userId \in JoinUserIds(s) :
       \E userName \in JoinNames(userId) : Join(s, "s1", userId, userName)
  /\ UNCHANGED nonBrokerVars

BrokerMessage ==
  /\ \E s \in MessageSockets, message \in BrokerMessages : Message(s, message)
  /\ UNCHANGED nonBrokerVars

BrokerRequestSync ==
  /\ \E s \in MessageSockets : RequestSync(s)
  /\ UNCHANGED nonBrokerVars

BrokerDisconnect ==
  /\ \E s \in DisconnectSockets : Disconnect(s)
  /\ UNCHANGED nonBrokerVars

BrokerApiCreate ==
  /\ ApiCreateSession("s1", <<"b">>)
  /\ UNCHANGED nonBrokerVars

BrokerNext ==
  \/ BrokerJoin
  \/ BrokerMessage
  \/ BrokerRequestSync
  \/ BrokerDisconnect
  \/ BrokerApiCreate

BrokerSpec == BrokerInit /\ [][BrokerNext]_vars

(***************************************************************************)
(* Claims about the broker's participant list                              *)
(***************************************************************************)
AllUserIds == 1..NumSockets
AllNames == {NameOf(u) : u \in AllUserIds} \cup {<<"A">>}

FailedAckIn(em, s) ==
  /\ Len(em) = 1
  /\ em[1].to = {s}
  /\ em[1].event = "connection_ack"
  /\ ~em[1].data.success

SucceededAckIn(em, s) ==
  /\ Len(em) = 3
  /\ em[3].to = {s}
  /\ em[3].event = "connection_ack"
  /\ em[3].data.success

\* a step that ran the join handler; call' holds its arguments
JoinStep == call'.kind = "join"

JoinTarget == sessions[call'.sid].users

C2_NameTakenRejected ==
  [][( /\ JoinStep
       /\ call'.sid \in DOMAIN sessions
       /\ \E i \in DOMAIN JoinTarget :
            /\ JoinTarget[i].name = call'.userName
            /\ JoinTarget[i].id # call'.userId )
     => ( /\ FailedAckIn(emitted', call'.s)
          /\ sessions'[call'.sid] = sessions[call'.sid] )]_vars

\* a join under a name another participant holds has just been refused, in a
\* session that is not full and has content
C2_Witness ==
  /\ call.kind = "join"
  /\ \E i \in DOMAIN sessions[call.sid].users :
       /\ sessions[call.sid].users[i].name = call.userName
       /\ sessions[call.sid].users[i].id # call.userId
  /\ Len(sessions[call.sid].users) < MAX_USERS_PER_SESSION
  /\ sessions[call.sid].content # <<>>
  /\ FailedAckIn(emitted, call.s)
  /\ emitted[1].data.error = "name"

\* C3 (as claimed): a join whose userId is already in the session's list
\* succeeds in every session state, the list keeps its length and the entry of
\* that id is the new one.
C3_RejoinAlwaysSucceeds ==
  [][( /\ JoinStep
       /\ call'.sid \in DOMAIN sessions
       /\ call'.userId \in Ids(JoinTarget) )
     => ( /\ SucceededAckIn(emitted', call'.s)
          /\ Len(sessions'[call'.sid].users) = Len(JoinTarget)
          /\ \E i \in DOMAIN sessions'[call'.sid].users :
               /\ sessions'[call'.sid].users[i].id = call'.userId
               /\ sessions'[call'.sid].users[i].name = call'.userName
               /\ sessions'[call'.sid].users[i].status = "active" )]_vars

(***************************************************************************)
(* The broker's content handling, from an empty registry                   *)
(***************************************************************************)
ContentSockets == {1, 2}

OperationInputs ==
  {SyncOp(1, c) : c \in {<<>>, <<"a">>, <<"a", "b">>}}
    \cup {InsertOp(1, p, <<"b">>) : p \in {0, 1}}
    \cup {DeleteOp(1, 0, 1), Op("sync", 1, None, None, None, None)}

ContentMessages ==
  {OperationMsg(Some(o)) : o \in OperationInputs}
    \cup {OperationMsg(None)}
    \cup {ContentMsg(c) : c \in {None, Some(<<>>), Some(<<"b">>)}}
    \cup {CursorMsg(u, 1) : u \in {None, Some(1)}}
    \cup {SelectionMsg(Some(1), 0, 1)}
    \cup {StatusMsg(Some(1), st) : st \in {None, Some("away")}}
    \cup {ActivityMsg(Some(1)), HeartbeatMsg(Some(1)), LeaveRequest(Some(1))}

ContentInit ==
  /\ sessions = <<>>
  /\ sock = [s \in Sockets |-> IdleSocket]
  /\ emitted = <<>>
  /\ call = [kind |-> "none"]
  /\ doc = QuietDoc
  /\ cl = <<>>
  /\ up = <<>>
  /\ down = <<>>
  /\ relayLog = <<>>
  /\ store = <<>>
  /\ tab = <<>>
  /\ pend = <<>>
  /\ clock = StartClock
  /\ ot = <<>>
  /\ hist = <<>>
  /\ conn = <<>>
  /\ rx = <<>>
  /\ ed = <<>>

ContentJoin ==
  /\ \E s \in ContentSockets : Join(s, "s1", s, NameOf(s))
  /\ UNCHANGED nonBrokerVars

ContentMessage ==
  /\ \E s \in ContentSockets, message \in ContentMessages : Message(s, message)
  /\ UNCHANGED nonBrokerVars

ContentRequestSync ==
  /\ \E s \in ContentSockets : RequestSync(s)
  /\ UNCHANGED nonBrokerVars

ContentDisconnect ==
  /\ \E s \in ContentSockets : Disconnect(s)
  /\ UNCHANGED nonBrokerVars

ContentApiCreate ==
  /\ \E sid \in SessionIds, content \in {<<>>, <<"a">>} :
       ApiCreateSession(sid, content)
  /\ UNCHANGED nonBrokerVars

ContentNext ==
  \/ ContentJoin
  \/ ContentMessage
  \/ ContentRequestSync
  \/ ContentDisconnect
  \/ ContentApiCreate

ContentSpec == ContentInit /\ [][ContentNext]_vars

(***************************************************************************)
(* Claims about the broker's stored content                                *)
(***************************************************************************)
\* a step that ran the message handler with an operation message
OperationStep ==
  /\ call'.kind = "message"
  /\ call'.message.type = "operation"
  /\ call'.message.payload.operation # None

SteppedOp == call'.message.payload.operation[1]
SteppedSid == sock[call'.s].currentSessionId[1]

\* C7 (as claimed): after the broker handled an operation message carrying a
\* FullSync, the session's stored content is the FullSync's content, whatever
\* that content is (the empty string included).
C7_FullSyncReplaces ==
  [][( /\ OperationStep
       /\ SteppedOp.type = "sync"
       /\ SteppedOp.content # None )
     => sessions'[SteppedSid].content = SteppedOp.content[1]]_vars

\* C8 (as claimed): after the broker handled an operation message carrying an
\* Insert or a Delete, the session's stored content is the previous content
\* with the text spliced in, resp. the characters removed.
C8_BrokerAppliesEdits ==
  [][( /\ OperationStep
       /\ SteppedOp.type \in {"insert", "delete"} )
     => sessions'[SteppedSid].content =
          ApplyOperation(sessions[SteppedSid].content, SteppedOp)]_vars

ContentChanged(sid) ==
  /\ sid \in DOMAIN sessions
  /\ sid \in DOMAIN sessions'
  /\ sessions'[sid].content # sessions[sid].content

\* C10 (as claimed): the stored content of a session changes only in a step
\* that handles a message of type operation.
C10_OnlyOperationChangesContent ==
  [][\A sid \in SessionIds :
       ContentChanged(sid) =>
         (call'.kind = "message" /\ call'.message.type = "operation")]_vars

\* C10 (amended): the stored content of a session changes only in a step that
\* handles a message of type operation or of type content, and then only the
\* content of the sender's current session.
C10_OnlyOperationOrContentChangesContent ==
  [][\A sid \in SessionIds :
       ContentChanged(sid) =>
         ( /\ call'.kind = "message"
           /\ call'.message.type \in {"operation", "content"}
           /\ sid = SteppedSid )]_vars

\* a message of type content has just been handled and the session holds the
\* content it carried, which no operation and no session creation of this
\* specification supplies
C10_Witness ==
  /\ call.kind = "message"
  /\ call.message.type = "content"
  /\ "s1" \in DOMAIN sessions
  /\ sessions["s1"].content = <<"b">>
  /\ Len(sessions["s1"].users) = 2

(***************************************************************************)
(* The collaboration service's document: executeOperation from one user    *)
(***************************************************************************)
\* executeOperation: apply to session.content, push to session.operations
ExecuteOperation(session, operation) ==
  [session EXCEPT !.content = ApplyOperation(session.content, operation),
                  !.operations = Append(session.operations, operation)]

\* createSession(documentId, initialContent)
CreateSession(initialContent) ==
  [init |-> initialContent, content |-> initialContent, operations |-> <<>>]

EditOperations ==
  {InsertOp(1, p, <<c>>) : p \in 0..MaxPos, c \in Chars}
    \cup {DeleteOp(1, p, n) : p \in 0..MaxPos, n \in 1..2}

PureInit ==
  /\ sessions = <<>>
  /\ sock = [s \in Sockets |-> IdleSocket]
  /\ emitted = <<>>
  /\ call = [kind |-> "none"]
  /\ doc \in {CreateSession(c) : c \in Contents}
  /\ cl = <<>>
  /\ up = <<>>
  /\ down = <<>>
  /\ relayLog = <<>>
  /\ store = <<>>
  /\ tab = <<>>
  /\ pend = <<>>
  /\ clock = StartClock
  /\ ot = <<>>
  /\ hist = <<>>
  /\ conn = <<>>
  /\ rx = <<>>
  /\ ed = <<>>

PureExecute ==
  /\ Len(doc.operations) < MaxOps
  /\ \E operation \in EditOperations : doc' = ExecuteOperation(doc, operation)
  /\ UNCHANGED <<sessions, sock, emitted, call, cl, up, down, relayLog,
                 store, tab, pend, clock, serviceVars>>

PureNext == PureExecute

PureSpec == PureInit /\ [][PureNext]_vars

\* C9 (as claimed): whatever Insert/Delete operations one user has executed,
\* the resulting content is what a single FullSync carrying that content
\* makes of the initial content.
C9_ReplayEqualsFullSync ==
  ApplyOperation(doc.init, SyncOp(1, doc.content)) = doc.content

(***************************************************************************)
(* Two editors on one broker session                                       *)
(***************************************************************************)
CollabSockets == {1, 2}
CollabContents == {<<>>, <<"a">>, <<"b">>}

\* the editor's handleWebSocketMessage, as far as it touches the content.
\* handlerUserId is the userId the registered callback closed over.
HandleWebSocketMessage(editor, message) ==
  IF message.type = "operation" /\ message.payload.operation # None
  THEN LET op == message.payload.operation[1]
       IN IF op.userId = editor.handlerUserId THEN editor
          ELSE IF op.type = "insert" /\ TruthyStr(op.text) /\ op.position # None
          THEN [editor EXCEPT !.content =
                  Substring(@, 0, op.position[1]) \o op.text[1]
                    \o SubstringFrom(@, op.position[1])]
          ELSE IF op.type = "delete" /\ TruthyNum(op.length) /\ op.position # None
          THEN [editor EXCEPT !.content =
                  Substring(@, 0, op.position[1])
                    \o SubstringFrom(@, op.position[1] + op.length[1])]
          ELSE IF op.type = "sync" /\ TruthyStr(op.content)
          THEN [editor EXCEPT !.content = op.content[1]]
          ELSE editor
  ELSE IF message.type = "content" /\ message.payload.content # None
  THEN [editor EXCEPT !.content = message.payload.content[1]]
  ELSE editor

\* all channels between the editors and the broker are empty
Quiet ==
  \A s \in CollabSockets : up[s] = <<>> /\ down[s] = <<>>

EditsDone == cl[1].edits + cl[2].edits

\* both editors opened an empty document and joined "s1"; the callback of
\* either build closed over the userId of the render before setUserId took
\* effect (0, the empty string) or over the editor's own id
CollabInit ==
  /\ sessions = "s1" :> [users |-> [k \in 1..2 |-> NewUser(k, NameOf(k), k)],
                         content |-> <<>>, lastUpdated |-> StartClock.now]
  /\ sock = [s \in Sockets |-> IF s \in CollabSockets
                               THEN JoinedSocket(s, NameOf(s), "s1")
                               ELSE IdleSocket]
  /\ emitted = <<>>
  /\ call = [kind |-> "none"]
  /\ doc = QuietDoc
  /\ \E stale \in BOOLEAN :
       cl = [s \in CollabSockets |->
               [userId |-> s, handlerUserId |-> IF stale THEN 0 ELSE s,
                content |-> <<>>, edits |-> 0]]
  /\ up = [s \in CollabSockets |-> <<>>]
  /\ down = [s \in CollabSockets |-> <<>>]
  /\ relayLog = [log |-> <<>>, overlap |-> FALSE]
  /\ store = <<>>
  /\ tab = <<>>
  /\ pend = <<>>
  /\ clock = StartClock
  /\ ot = <<>>
  /\ hist = <<>>
  /\ conn = <<>>
  /\ rx = <<>>
  /\ ed = <<>>

\* handleContentChange on a changed value: the activity notice, setContent,
\* then the FullSync
EditorChange ==
  /\ EditsDone < MaxEdits
  /\ \E s \in CollabSockets, newContent \in CollabContents :
       /\ newContent # cl[s].content
       /\ cl' = [cl EXCEPT ![s].content = newContent, ![s].edits = @ + 1]
       /\ up' = [up EXCEPT ![s] = @ \o
                   << ActivityMsg(Some(cl[s].userId)),
                      OperationMsg(Some(SyncOp(cl[s].userId, newContent))) >>]
  /\ relayLog' = [relayLog EXCEPT !.overlap = ~Quiet]
  /\ UNCHANGED <<sessions, sock, emitted, call, doc, down, store, tab, pend, clock,
                 serviceVars>>

IsSyncMessage(message) ==
  /\ message.type = "operation"
  /\ message.payload.operation # None
  /\ message.payload.operation[1].type = "sync"
  /\ message.payload.operation[1].content # None

\* the broker takes the next event of a socket and relays it to the room
BrokerRelay ==
  /\ \E s \in CollabSockets :
       /\ up[s] # <<>>
       /\ Message(s, Head(up[s]))
       /\ up' = [up EXCEPT ![s] = Tail(@)]
       /\ down' = [t \in CollabSockets |->
                     IF t \in emitted'[1].to THEN Append(down[t], emitted'[1].data)
                     ELSE down[t]]
       /\ relayLog' =
            IF IsSyncMessage(Head(up[s]))
            THEN [relayLog EXCEPT !.log = Append(@,
                    [from |-> s,
                     content |-> Head(up[s]).payload.operation[1].content[1]])]
            ELSE relayLog
  /\ UNCHANGED <<doc, cl, store, tab, pend, clock, serviceVars>>

\* an editor's socket delivers the next relayed message to the handler
EditorReceive ==
  /\ \E s \in CollabSockets :
       /\ down[s] # <<>>
       /\ cl' = [cl EXCEPT ![s] = HandleWebSocketMessage(@, Head(down[s]))]
       /\ down' = [down EXCEPT ![s] = Tail(@)]
  /\ UNCHANGED <<sessions, sock, emitted, call, doc, up, relayLog, store, tab, pend,
                 clock, serviceVars>>

CollabNext ==
  \/ EditorChange
  \/ BrokerRelay
  \/ EditorReceive

CollabSpec == CollabInit /\ [][CollabNext]_vars

LastRelayed == relayLog.log[Len(relayLog.log)]

\* C5: when an editor sent a FullSync with non-empty content while nothing
\* else was in flight, then once every relayed message is delivered the other
\* editor's content, the sender's content and the session's stored content
\* all equal that content; the same holds for each later such FullSync.
C5_SoloFullSyncConverges ==
  ( /\ Quiet
    /\ ~relayLog.overlap
    /\ relayLog.log # <<>>
    /\ LastRelayed.content # <<>> )
  => /\ \A s \in CollabSockets : cl[s].content = LastRelayed.content
     /\ sessions["s1"].content = LastRelayed.content

\* editor 1 sent "a", then editor 2 sent "b", each with nothing else in
\* flight, and everything has been delivered
C5_Witness ==
  /\ Quiet
  /\ ~relayLog.overlap
  /\ Len(relayLog.log) = 2
  /\ relayLog.log[1] = [from |-> 1, content |-> <<"a">>]
  /\ relayLog.log[2] = [from |-> 2, content |-> <<"b">>]
  /\ cl[1].content = <<"b">>
  /\ sessions["s1"].content = <<"b">>

\* C6 (as claimed): when the two editors each sent one FullSync, the second
\* while the first was in flight, then once all relayed messages are delivered every editor's content and the session's stored content
\* equal the content of the FullSync relayed last.
C6_LastRelayedWins ==
  ( /\ Quiet
    /\ relayLog.overlap
    /\ EditsDone = 2
    /\ Len(relayLog.log) = 2
    /\ relayLog.log[1].from # relayLog.log[2].from )
  => /\ \A s \in CollabSockets : cl[s].content = LastRelayed.content
     /\ sessions["s1"].content = LastRelayed.content

(***************************************************************************)
(* Local peer transport (websocketService.ts): browser tabs sharing        *)
(* localStorage.  A handler runs to completion; L = [users, out] is the    *)
(* users entry of the storage (None while the key was never set) and the   *)
(* messages broadcast so far by the running handler.  Message ids are      *)
(* fresh uuids, so a storage event never carries the id of the receiving   *)
(* tab's own last broadcast.                                               *)
(***************************************************************************)
Tabs == {1, 2}

\* a CollaborationUser written with lastActive: Date.now()
LocalUser(id, name, status) ==
  [id |-> id, name |-> name, status |-> status, lastActive |-> clock.now]

LocalUsersOf(entry) == IF entry = None THEN <<>> ELSE entry[1]

\* validateUserStatus
ValidateUserStatus(status) ==
  IF status \in {"online", "away", "offline"} THEN status ELSE "online"

ValidatedUsers(users) ==
  [i \in DOMAIN users |-> [users[i] EXCEPT !.status = ValidateUserStatus(@)]]

FilterOutId(users, id) == SelectSeq(users, LAMBDA u : u.id # id)

\* broadcastMessage of a sync: the sender's own receiveMessage stores the list
BroadcastSync(L, users) ==
  [users |-> Some(ValidatedUsers(users)),
   out |-> Append(L.out, [type |-> "sync", payload |-> [users |-> users]])]

\* variant: the user is appended without looking for an entry of the same id
UpdateLocalUserListAlwaysPush(L, user) ==
  BroadcastSync(L, Append(LocalUsersOf(L.users),
                          LocalUser(user.id, user.name,
                                    ValidateUserStatus(user.status))))

\* updateLocalUserList(user, true)
UpdateLocalUserList(L, user) ==
  LET users == LocalUsersOf(L.users)
      newUser == LocalUser(user.id, user.name, ValidateUserStatus(user.status))
      i == FindIndex(users, user.id)
      users2 == IF i # 0 THEN [users EXCEPT ![i] = newUser]
                ELSE Append(users, newUser)
  IN BroadcastSync(L, users2)

\* removeUserFromActiveList
RemoveUserFromActiveList(L, userId) ==
  IF L.users = None THEN L
  ELSE BroadcastSync(L, FilterOutId(L.users[1], userId))

\* updateUserStatus
UpdateUserStatus(L, userId, status) ==
  LET users == LocalUsersOf(L.users)
      i == FindIndex(users, userId)
  IN IF i # 0 /\ users[i].status # status
     THEN BroadcastSync(L, [users EXCEPT ![i].status = status,
                                         ![i].lastActive = clock.now])
     ELSE L

\* variant: an activity of a user that is online already changes nothing
UpdateUserActivityOnlyOnChange(L, userId) ==
  IF L.users = None THEN L
  ELSE LET users == L.users[1]
           users2 == [i \in DOMAIN users |->
                        IF users[i].id = userId /\ users[i].status # "online"
                        THEN [users[i] EXCEPT !.status = "online",
                                              !.lastActive = clock.now]
                        ELSE users[i]]
       IN IF users2 # users THEN BroadcastSync(L, users2) ELSE L

\* updateUserActivity: the list is saved; it is broadcast when a status changed
UpdateUserActivity(L, userId) ==
  IF L.users = None THEN L
  ELSE LET users == L.users[1]
           updated == \E i \in DOMAIN users :
                        users[i].id = userId /\ users[i].status # "online"
           users2 == [i \in DOMAIN users |->
                        IF users[i].id = userId
                        THEN [users[i] EXCEPT !.status = "online",
                                              !.lastActive = clock.now]
                        ELSE users[i]]
       IN IF updated THEN BroadcastSync(L, users2)
          ELSE [L EXCEPT !.users = Some(users2)]

\* variant: a received heartbeat refreshes lastActive and keeps the status
UpdateUserLastActiveKeepStatus(L, userId) ==
  IF L.users = None THEN L
  ELSE LET users == L.users[1]
           users2 == [i \in DOMAIN users |->
                        IF users[i].id = userId
                        THEN [users[i] EXCEPT !.lastActive = clock.now]
                        ELSE users[i]]
       IN IF userId \in Ids(users) THEN BroadcastSync(L, users2) ELSE L

\* updateUserLastActive: an away user seen again is online
UpdateUserLastActive(L, userId) ==
  IF L.users = None THEN L
  ELSE LET users == L.users[1]
           users2 == [i \in DOMAIN users |->
                        IF users[i].id = userId
                        THEN [users[i] EXCEPT
                                !.status = IF @ = "away" THEN "online" ELSE @,
                                !.lastActive = clock.now]
                        ELSE users[i]]
       IN IF userId \in Ids(users) THEN BroadcastSync(L, users2) ELSE L

\* syncUsers
SyncUsers(L, me) ==
  IF ~me.hasSession THEN L
  ELSE LET users == LocalUsersOf(L.users)
           users2 == IF me.userId # 0 /\ me.userId \notin Ids(users)
                     THEN Append(users, LocalUser(me.userId, me.userName, "online"))
                     ELSE users
       IN BroadcastSync(L, users2)

\* receiveMessage
ReceiveMessage(L, me, message) ==
  CASE message.type = "join" -> UpdateLocalUserList(L, message.payload.user)
    [] message.type = "leave" -> RemoveUserFromActiveList(L, message.payload.userId)
    [] message.type = "heartbeat" -> UpdateUserLastActive(L, message.payload.userId)
    [] message.type = "status" ->
         UpdateUserStatus(L, message.payload.userId, message.payload.status)
    [] message.type = "activity" -> UpdateUserActivity(L, message.payload.userId)
    [] message.type = "sync" ->
         [L EXCEPT !.users = Some(ValidatedUsers(message.payload.users))]
    [] message.type = "request_users" -> SyncUsers(L, me)
    [] OTHER -> L

\* broadcastMessage: write the message key, then handle the message oneself
BroadcastMessage(L, me, message) ==
  ReceiveMessage([L EXCEPT !.out = Append(@, message)], me, message)

\* sendUserStatus
SendUserStatus(L, me, userId, status) ==
  IF ~me.connected \/ ~me.hasSession THEN L
  ELSE LET L1 == BroadcastMessage(L, me,
                   [type |-> "status",
                    payload |-> [userId |-> userId, status |-> status]])
       IN IF status = "offline" THEN RemoveUserFromActiveList(L1, userId)
          ELSE IF L1.users = None THEN L1
          ELSE BroadcastSync(L1,
                 [i \in DOMAIN L1.users[1] |->
                    IF L1.users[1][i].id = userId
                    THEN [L1.users[1][i] EXCEPT !.status = status,
                                                !.lastActive = clock.now]
                    ELSE L1.users[1][i]])

\* sendUserActivity: broadcast the activity, then updateUserStatus
SendUserActivity(L, me, userId, activityType) ==
  IF ~me.connected \/ ~me.hasSession THEN L
  ELSE UpdateUserStatus(
         BroadcastMessage(L, me,
           [type |-> "activity",
            payload |-> [userId |-> userId, type |-> activityType]]),
         userId, "online")

\* a client before its first connect; timer is the pending syncUsers timeout,
\* cleanup tells that startCleanupInterval ran, ops counts the calls made on
\* the client
IdleTab == [connected |-> FALSE, hasSession |-> FALSE, listening |-> FALSE,
            userId |-> 0, userName |-> <<>>, timer |-> FALSE, cleanup |-> FALSE,
            ops |-> 0]

\* disconnect(): what it leaves in the storage and on the wire
DisconnectStorage(L, me) ==
  IF ~me.connected \/ ~me.hasSession \/ me.userId = 0 THEN L
  ELSE BroadcastMessage(SendUserStatus(L, me, me.userId, "offline"), me,
                        [type |-> "leave", payload |-> [userId |-> me.userId]])

\* disconnect(): the client's fields
DisconnectTab(me) ==
  IF ~me.connected THEN me
  ELSE [me EXCEPT !.connected = FALSE, !.hasSession = FALSE,
                  !.listening = FALSE, !.userId = 0]


LocalIsDuplicateName(users, userId, userName) ==
  \E i \in DOMAIN users :
    /\ ToLowerCase(users[i].name) = ToLowerCase(userName)
    /\ users[i].id # userId

\* connect() to another session or as another user: the users entry and the
\* broadcasts it leaves, or the entry untouched when it throws
ConnectStorage(L, me, userId, userName) ==
  LET L0 == DisconnectStorage(L, me)
      users == LocalUsersOf(L0.users)
      user == LocalUser(userId, userName, "online")
      me1 == [me EXCEPT !.connected = TRUE, !.hasSession = TRUE,
                        !.userId = userId, !.userName = userName]
  IN IF Len(users) >= 8 \/ LocalIsDuplicateName(users, userId, userName)
     THEN L0
     ELSE BroadcastMessage(
            [L0 EXCEPT !.users = Some(Append(FilterOutId(users, userId), user))],
            me1, [type |-> "join", payload |-> [user |-> user]])

ConnectSucceeds(L, me, userId, userName) ==
  LET users == LocalUsersOf(DisconnectStorage(L, me).users)
  IN Len(users) < 8 /\ ~LocalIsDuplicateName(users, userId, userName)

Stored == [users |-> store, out |-> <<>>]

\* storage events reach every other tab, in order
Publish(t, L) ==
  /\ store' = L.users
  /\ pend' = [o \in Tabs |-> IF o = t THEN pend[o] ELSE pend[o] \o L.out]

\* calls are made while few storage events are waiting
MayCall ==
  /\ tab[1].ops + tab[2].ops < MaxLocalOps
  /\ \A o \in Tabs : Len(pend[o]) <= MaxBacklog

LocalInit ==
  /\ sessions = <<>>
  /\ sock = <<>>
  /\ emitted = <<>>
  /\ call = [kind |-> "none"]
  /\ doc = QuietDoc
  /\ cl = <<>>
  /\ up = <<>>
  /\ down = <<>>
  /\ relayLog = <<>>
  /\ store = None
  /\ tab = [t \in Tabs |-> IdleTab]
  /\ pend = [t \in Tabs |-> <<>>]
  /\ clock = StartClock
  /\ ot = <<>>
  /\ hist = <<>>
  /\ conn = <<>>
  /\ rx = <<>>
  /\ ed = <<>>

\* connect(sessionId, userId, userName) on tab t
TabConnect(t, userId, userName) ==
  IF tab[t].connected /\ tab[t].userId = userId
  THEN /\ Publish(t, SendUserStatus(Stored, tab[t], userId, "online"))
       /\ tab' = [tab EXCEPT ![t].cleanup = TRUE, ![t].ops = @ + 1]
  ELSE /\ Publish(t, ConnectStorage(Stored, tab[t], userId, userName))
       /\ tab' = [tab EXCEPT ![t] =
            [@ EXCEPT !.connected = ConnectSucceeds(Stored, tab[t], userId, userName),
                      !.hasSession = TRUE, !.listening = TRUE,
                      !.userId = userId, !.userName = userName,
                      !.cleanup = @ \/ ConnectSucceeds(Stored, tab[t], userId, userName),
                      !.ops = @ + 1]]

\* disconnect() on tab t
TabDisconnect(t) ==
  /\ tab[t].connected
  /\ Publish(t, DisconnectStorage(Stored, tab[t]))
  /\ tab' = [tab EXCEPT ![t] = [DisconnectTab(@) EXCEPT !.ops = @ + 1]]

\* sendUserStatus(own id, status) from the editor's visibility handler
TabSendUserStatus(t, status) ==
  /\ tab[t].connected
  /\ Publish(t, SendUserStatus(Stored, tab[t], tab[t].userId, status))
  /\ tab' = [tab EXCEPT ![t].ops = @ + 1]

\* sendUserActivity(own id, activityType) from the editor's input handlers
TabSendUserActivity(t, activityType) ==
  /\ tab[t].connected
  /\ Publish(t, SendUserActivity(Stored, tab[t], tab[t].userId, activityType))
  /\ tab' = [tab EXCEPT ![t].ops = @ + 1]

\* requestSyncUsers(): broadcast request_users, then syncUsers
TabRequestSyncUsers(t) ==
  /\ tab[t].connected
  /\ Publish(t, SyncUsers(BroadcastMessage(Stored, tab[t],
                  [type |-> "request_users",
                   payload |-> [requesterId |-> tab[t].userId]]),
                tab[t]))
  /\ tab' = [tab EXCEPT ![t].timer = TRUE, ![t].ops = @ + 1]

\* the syncUsers timeout fires; it re-arms itself while there is a session
TabSyncTimer(t) ==
  /\ tab[t].timer
  /\ Publish(t, SyncUsers(Stored, tab[t]))
  /\ tab' = [tab EXCEPT ![t].timer = tab[t].hasSession, ![t].ops = @ + 1]

\* a storage event reaches tab t: handleStorageChange, then handleStorageEvent,
\* which skips the message only while it still is the tab's last message
HandleStorage(t) ==
  LET message == Head(pend[t])
      first == tab[t].hasSession /\ tab[t].connected
      L1 == IF first THEN ReceiveMessage(Stored, tab[t], message) ELSE Stored
      second == /\ tab[t].listening
                /\ tab[t].hasSession
                /\ (~first \/ L1.out # <<>>)
      L2 == IF second THEN ReceiveMessage(L1, tab[t], message) ELSE L1
  IN [message |-> message, handled |-> first \/ second, L |-> L2]

TabDeliver(t) ==
  /\ pend[t] # <<>>
  /\ LET h == HandleStorage(t)
     IN /\ store' = h.L.users
        /\ pend' = [o \in Tabs |-> IF o = t THEN Tail(pend[o])
                                   ELSE pend[o] \o h.L.out]
        /\ tab' = [tab EXCEPT ![t].timer =
                     @ \/ (h.handled /\ h.message.type = "request_users")]

LocalConnect ==
  /\ MayCall
  /\ \E t \in Tabs : \E userId \in {1, t} : \E userName \in {NameOf(userId), <<"A">>} :
       TabConnect(t, userId, userName)
  /\ UNCHANGED <<nonLocalVars, clock>>

LocalDisconnect ==
  /\ MayCall
  /\ \E t \in Tabs : TabDisconnect(t)
  /\ UNCHANGED <<nonLocalVars, clock>>

LocalSendUserStatus ==
  /\ MayCall
  /\ \E t \in Tabs, status \in {"online", "away"} : TabSendUserStatus(t, status)
  /\ UNCHANGED <<nonLocalVars, clock>>

LocalSendUserActivity ==
  /\ MayCall
  /\ \E t \in Tabs : TabSendUserActivity(t, "typing")
  /\ UNCHANGED <<nonLocalVars, clock>>

LocalRequestSyncUsers ==
  /\ MayCall
  /\ \E t \in Tabs : TabRequestSyncUsers(t)
  /\ UNCHANGED <<nonLocalVars, clock>>

LocalSyncTimer ==
  /\ MayCall
  /\ \E t \in Tabs : TabSyncTimer(t)
  /\ UNCHANGED <<nonLocalVars, clock>>

LocalDeliver ==
  /\ \E t \in Tabs : TabDeliver(t)
  /\ UNCHANGED <<nonLocalVars, clock>>

LocalNext ==
  \/ LocalConnect
  \/ LocalDisconnect
  \/ LocalSendUserStatus
  \/ LocalSendUserActivity
  \/ LocalRequestSyncUsers
  \/ LocalSyncTimer
  \/ LocalDeliver

LocalSpec == LocalInit /\ [][LocalNext]_vars

(***************************************************************************)
(* Membership: the broker's registry or the local transport's users list   *)
(***************************************************************************)
BrokerRuns == sock # <<>>
LocalRuns == tab # <<>>

MembershipInit == BrokerInit \/ LocalInit

MembershipNext ==
  \/ BrokerRuns /\ BrokerJoin
  \/ BrokerRuns /\ BrokerMessage
  \/ BrokerRuns /\ BrokerRequestSync
  \/ BrokerRuns /\ BrokerDisconnect
  \/ BrokerRuns /\ BrokerApiCreate
  \/ LocalRuns /\ LocalConnect
  \/ LocalRuns /\ LocalDisconnect
  \/ LocalRuns /\ LocalSendUserStatus
  \/ LocalRuns /\ LocalSendUserActivity
  \/ LocalRuns /\ LocalRequestSyncUsers
  \/ LocalRuns /\ LocalSyncTimer
  \/ LocalRuns /\ LocalDeliver

MembershipSpec == MembershipInit /\ [][MembershipNext]_vars

\* C4: no participant list holds two entries with the same id, neither a
\* session's list in the broker's registry nor the local transport's shared
\* users list.
C4_IdsUnique ==
  /\ \A sid \in DOMAIN sessions : UniqueIds(sessions[sid].users)
  /\ UniqueIds(LocalUsersOf(store))

\* two tabs connected under different ids, a third call was made, every
\* storage event has been handled and both users are in the shared list
C4_Witness ==
  /\ LocalRuns
  /\ tab[1].connected /\ tab[2].connected
  /\ tab[1].userId # tab[2].userId
  /\ tab[1].ops + tab[2].ops = 3
  /\ \A o \in Tabs : pend[o] = <<>>
  /\ Len(LocalUsersOf(store)) = 2

(***************************************************************************)
(* Presence in the local peer transport: the activity check, the           *)
(* heartbeat's sweep and the cleanup interval (websocketService.ts)        *)
(***************************************************************************)
AWAY_TIMEOUT == 30 * 1000
OFFLINE_TIMEOUT == 5 * 60 * 1000
\* cleanupOfflineUsers' own limit for users that are away
AWAY_CLEANUP_TIMEOUT == 2 * 60 * 1000

MaxTicks == 2
TickSteps == {1, AWAY_TIMEOUT, AWAY_CLEANUP_TIMEOUT, OFFLINE_TIMEOUT}
ActivityTypes == {"input", "typing"}

\* variant: a user is due as soon as AWAY_TIMEOUT has passed
AwayDueAtTimeout(user) ==
  /\ ValidateUserStatus(user.status) \in {"online", "offline"}
  /\ user.lastActive # 0
  /\ clock.now - user.lastActive >= AWAY_TIMEOUT

\* the activity check's test on one user
AwayDue(user) ==
  /\ ValidateUserStatus(user.status) \in {"online", "offline"}
  /\ user.lastActive # 0
  /\ clock.now - user.lastActive > AWAY_TIMEOUT

\* the interval callback of startActivityCheck
ActivityCheck(L, me) ==
  IF ~me.hasSession THEN L
  ELSE LET users == LocalUsersOf(L.users)
           hasChanges == \E i \in DOMAIN users : AwayDue(users[i])
           updatedUsers == [i \in DOMAIN users |->
                              IF AwayDue(users[i])
                              THEN [users[i] EXCEPT !.status = "away"]
                              ELSE [users[i] EXCEPT !.status = ValidateUserStatus(@)]]
       IN IF hasChanges THEN BroadcastSync(L, updatedUsers) ELSE L

\* the filters' test for a user that timed out
OfflineDue(user) ==
  \/ user.lastActive = 0
  \/ clock.now - user.lastActive > OFFLINE_TIMEOUT

\* sendHeartbeat's filter: a leave is broadcast for every user it drops
RECURSIVE LeaveDropped(_, _, _, _)
LeaveDropped(L, me, users, i) ==
  IF i > Len(users) THEN L
  ELSE LeaveDropped(
         IF OfflineDue(users[i])
         THEN BroadcastMessage(L, me, [type |-> "leave",
                                       payload |-> [userId |-> users[i].id]])
         ELSE L,
         me, users, i + 1)

\* sendHeartbeat(userId)
SendHeartbeat(L, me, userId) ==
  IF ~me.connected \/ ~me.hasSession \/ L.users = None THEN L
  ELSE LET users == L.users[1]
           updatedUsers == [i \in DOMAIN users |->
                              IF users[i].id = userId
                              THEN [users[i] EXCEPT !.lastActive = clock.now]
                              ELSE users[i]]
           activeUsers == SelectSeq(updatedUsers, LAMBDA u : ~OfflineDue(u))
           L1 == [LeaveDropped(L, me, updatedUsers, 1)
                    EXCEPT !.users = Some(activeUsers)]
       IN IF activeUsers # users THEN BroadcastSync(L1, activeUsers) ELSE L1

\* cleanupOfflineUsers' filter
CleanupDue(user) ==
  \/ OfflineDue(user)
  \/ user.status = "away" /\ clock.now - user.lastActive > AWAY_CLEANUP_TIMEOUT

\* cleanupOfflineUsers
CleanupOfflineUsers(L, me) ==
  IF ~me.hasSession \/ L.users = None THEN L
  ELSE LET users == L.users[1]
           activeUsers == SelectSeq(users, LAMBDA u : ~CleanupDue(u))
       IN IF Len(activeUsers) # Len(users)
          THEN BroadcastSync([L EXCEPT !.users = Some(activeUsers)], activeUsers)
          ELSE L

\* the activity check interval runs between a connect and the next disconnect
TabActivityCheck(t) ==
  /\ tab[t].connected
  /\ Publish(t, ActivityCheck(Stored, tab[t]))
  /\ tab' = [tab EXCEPT ![t].ops = @ + 1]

\* the editor's heartbeat interval
TabSendHeartbeat(t) ==
  /\ tab[t].connected
  /\ Publish(t, SendHeartbeat(Stored, tab[t], tab[t].userId))
  /\ tab' = [tab EXCEPT ![t].ops = @ + 1]

\* the cleanup interval is never cleared
TabCleanupOfflineUsers(t) ==
  /\ tab[t].cleanup
  /\ Publish(t, CleanupOfflineUsers(Stored, tab[t]))
  /\ tab' = [tab EXCEPT ![t].ops = @ + 1]

\* the entry of a user in the stored list, and its status ("none" if absent)
EntryOf(entry, id) == LocalUsersOf(entry)[FindIndex(LocalUsersOf(entry), id)]
StatusOf(entry, id) ==
  IF id \in Ids(LocalUsersOf(entry)) THEN EntryOf(entry, id).status ELSE "none"

presenceFrame == <<sessions, sock, emitted, doc, cl, up, down, relayLog, serviceVars>>

\* storage events are handled long before the next call or timer
Quiescent == \A o \in Tabs : pend[o] = <<>>

PresenceMayCall ==
  /\ tab[1].ops + tab[2].ops < MaxLocalOps
  /\ Quiescent

PresenceConnect ==
  /\ PresenceMayCall
  /\ \E t \in Tabs :
       /\ TabConnect(t, t, NameOf(t))
       /\ call' = [kind |-> "connect", tab |-> t]
  /\ UNCHANGED <<presenceFrame, clock>>

PresenceDisconnect ==
  /\ PresenceMayCall
  /\ \E t \in Tabs :
       /\ TabDisconnect(t)
       /\ call' = [kind |-> "disconnect", tab |-> t,
                   out |-> DisconnectStorage(Stored, tab[t]).out]
  /\ UNCHANGED <<presenceFrame, clock>>

PresenceSendUserStatus ==
  /\ PresenceMayCall
  /\ \E t \in Tabs, status \in {"online", "away"} :
       /\ TabSendUserStatus(t, status)
       /\ call' = [kind |-> "sendUserStatus", tab |-> t,
                   before |-> StatusOf(store, tab[t].userId),
                   message |-> [type |-> "status",
                                payload |-> [userId |-> tab[t].userId,
                                             status |-> status]]]
  /\ UNCHANGED <<presenceFrame, clock>>

PresenceSendUserActivity ==
  /\ PresenceMayCall
  /\ \E t \in Tabs, activityType \in ActivityTypes :
       /\ TabSendUserActivity(t, activityType)
       /\ call' = [kind |-> "sendUserActivity", tab |-> t,
                   before |-> StatusOf(store, tab[t].userId),
                   message |-> [type |-> "activity",
                                payload |-> [userId |-> tab[t].userId,
                                             type |-> activityType]]]
  /\ UNCHANGED <<presenceFrame, clock>>

PresenceActivityCheck ==
  /\ PresenceMayCall
  /\ \E t \in Tabs :
       /\ TabActivityCheck(t)
       /\ call' = [kind |-> "activityCheck", tab |-> t,
                   out |-> ActivityCheck(Stored, tab[t]).out]
  /\ UNCHANGED <<presenceFrame, clock>>

PresenceSendHeartbeat ==
  /\ PresenceMayCall
  /\ \E t \in Tabs :
       /\ TabSendHeartbeat(t)
       /\ call' = [kind |-> "sendHeartbeat", tab |-> t,
                   out |-> SendHeartbeat(Stored, tab[t], tab[t].userId).out]
  /\ UNCHANGED <<presenceFrame, clock>>

PresenceCleanupOfflineUsers ==
  /\ PresenceMayCall
  /\ \E t \in Tabs :
       /\ TabCleanupOfflineUsers(t)
       /\ call' = [kind |-> "cleanupOfflineUsers", tab |-> t,
                   out |-> CleanupOfflineUsers(Stored, tab[t]).out]
  /\ UNCHANGED <<presenceFrame, clock>>

PresenceDeliver ==
  /\ \E t \in Tabs :
       /\ TabDeliver(t)
       /\ call' = [kind |-> "deliver", tab |-> t,
                   message |-> Head(pend[t]),
                   handled |-> HandleStorage(t).handled]
  /\ UNCHANGED <<presenceFrame, clock>>

\* time passes
PresenceTick ==
  /\ clock.ticks < MaxTicks
  /\ Quiescent
  /\ \E step \in TickSteps :
       clock' = [now |-> clock.now + step, ticks |-> clock.ticks + 1]
  /\ call' = [kind |-> "tick"]
  /\ UNCHANGED <<presenceFrame, store, tab, pend>>

PresenceNext ==
  \/ PresenceConnect
  \/ PresenceDisconnect
  \/ PresenceSendUserStatus
  \/ PresenceSendUserActivity
  \/ PresenceActivityCheck
  \/ PresenceSendHeartbeat
  \/ PresenceCleanupOfflineUsers
  \/ PresenceDeliver
  \/ PresenceTick

PresenceSpec == LocalInit /\ [][PresenceNext]_vars

\* C11: an activity check sets every Online participant whose lastActive is
\* more than AWAY_TIMEOUT old to Away, and sets no participant to Away whose
\* lastActive is at most AWAY_TIMEOUT old.
C11_ActivityCheckSetsAway ==
  [][call'.kind = "activityCheck" =>
       /\ Len(LocalUsersOf(store')) = Len(LocalUsersOf(store))
       /\ \A i \in DOMAIN LocalUsersOf(store) :
            LET old == LocalUsersOf(store)[i]
                new == LocalUsersOf(store')[i]
            IN /\ new.id = old.id
               /\ (old.status = "online"
                     /\ clock.now - old.lastActive > AWAY_TIMEOUT)
                    => new.status = "away"
               /\ (clock.now - old.lastActive <= AWAY_TIMEOUT
                     /\ old.status # "away")
                    => new.status # "away"]_vars

\* an activity check has just set an Online participant to Away
C11_Witness ==
  /\ call.kind = "activityCheck"
  /\ call.out # <<>>
  /\ \E i \in DOMAIN LocalUsersOf(store) :
       /\ LocalUsersOf(store)[i].status = "away"
       /\ clock.now - LocalUsersOf(store)[i].lastActive > AWAY_TIMEOUT

TimerStep == call'.kind \in {"sendHeartbeat", "cleanupOfflineUsers"}

\* C12: neither sendHeartbeat's sweep nor cleanupOfflineUsers removes a
\* participant, whatever its status, whose lastActive is at most
\* OFFLINE_TIMEOUT old.
C12_RemovedOnlyAfterOfflineTimeout ==
  [][TimerStep =>
       \A i \in DOMAIN LocalUsersOf(store) :
         clock.now - LocalUsersOf(store)[i].lastActive <= OFFLINE_TIMEOUT
           => LocalUsersOf(store)[i].id \in Ids(LocalUsersOf(store'))]_vars

\* C13: when sendHeartbeat's sweep or cleanupOfflineUsers removes a
\* participant, the handler broadcasts a leave message carrying that
\* participant's id, the message an explicit leave broadcasts.
C13_TimeoutRemovalBroadcastsLeave ==
  [][TimerStep =>
       \A id \in Ids(LocalUsersOf(store)) \ Ids(LocalUsersOf(store')) :
         \E k \in DOMAIN call'.out :
           call'.out[k] = [type |-> "leave", payload |-> [userId |-> id]]]_vars

\* an activity or status message is handled, by its sender or by a tab that
\* received it
SignalStep ==
  \/ call'.kind \in {"sendUserStatus", "sendUserActivity"}
  \/ /\ call'.kind = "deliver"
     /\ call'.handled
     /\ call'.message.type \in {"activity", "status"}

SignalUser == call'.message.payload.userId

\* C14 as stated: handling an activity message of any type or an explicit
\* status message for a participant in the list leaves that participant
\* Online with a refreshed lastActive.
C14_SignalLeavesOnline ==
  [][SignalStep /\ SignalUser \in Ids(LocalUsersOf(store)) =>
       /\ SignalUser \in Ids(LocalUsersOf(store'))
       /\ EntryOf(store', SignalUser).status = "online"
       /\ EntryOf(store', SignalUser).lastActive = clock.now]_vars

\* C14 amended: handling an activity message of any type for a participant in
\* the list leaves it Online with a refreshed lastActive; handling an explicit
\* status message leaves a participant that stays in the list with the status
\* the message carries, and with a refreshed lastActive whenever that status
\* differs from the one it had.
C14_ActivityOnlineStatusCarried ==
  [][SignalStep /\ SignalUser \in Ids(LocalUsersOf(store)) =>
       IF call'.message.type = "activity"
       THEN /\ SignalUser \in Ids(LocalUsersOf(store'))
            /\ EntryOf(store', SignalUser).status = "online"
            /\ EntryOf(store', SignalUser).lastActive = clock.now
       ELSE SignalUser \in Ids(LocalUsersOf(store')) =>
              /\ EntryOf(store', SignalUser).status = call'.message.payload.status
              /\ StatusOf(store, SignalUser) # call'.message.payload.status
                   => EntryOf(store', SignalUser).lastActive = clock.now]_vars

\* a participant that was Away has just sent an activity message, some time
\* after it connected, and is Online with lastActive at the present time
C14_Witness ==
  /\ call.kind = "sendUserActivity"
  /\ call.before = "away"
  /\ clock.ticks > 0
  /\ StatusOf(store, call.message.payload.userId) = "online"
  /\ EntryOf(store, call.message.payload.userId).lastActive = clock.now

(***************************************************************************)
(* Collaboration service: validateOperation and transformOperation         *)
(***************************************************************************)
\* a TextOperation with its optional timestamp and fromUserId
Stamped(op, timestamp, fromUserId) ==
  [type |-> op.type, userId |-> op.userId, position |-> op.position,
   text |-> op.text, length |-> op.length, content |-> op.content,
   timestamp |-> timestamp, fromUserId |-> fromUserId]

\* op.timestamp || 0
TimestampOf(op) == IF op.timestamp = None THEN 0 ELSE op.timestamp[1]

\* (op.text || '').length and op.length || 0
TextLength(op) == IF op.text = None THEN 0 ELSE Len(op.text[1])
DeleteLength(op) == IF op.length = None THEN 0 ELSE op.length[1]

\* [...existingOps].sort by timestamp; the sort is stable
RECURSIVE SortOps(_)
SortOps(ops) ==
  IF ops = <<>> THEN <<>>
  ELSE LET n == Len(ops)
           sorted == SortOps(SubSeq(ops, 1, n - 1))
           k == Cardinality({i \in DOMAIN sorted :
                               TimestampOf(sorted[i]) <= TimestampOf(ops[n])})
       IN SubSeq(sorted, 1, k) \o <<ops[n]>> \o SubSeq(sorted, k + 1, Len(sorted))

\* both operations carry the same fromUserId
SameFromUser(a, b) ==
  /\ a.fromUserId # None
  /\ b.fromUserId # None
  /\ a.fromUserId = b.fromUserId

\* variant: an existing insert shifts only when it lies strictly before
InsertShiftsStrictlyBefore(existingOp, transformedOp) ==
  existingOp.position[1] < transformedOp.position[1]

\* the position test against an existing insert
InsertShifts(existingOp, transformedOp) ==
  existingOp.position[1] <= transformedOp.position[1]

\* variant: an existing delete shifts also when it lies at the same position
DeleteShiftsAtOrBefore(existingOp, transformedOp) ==
  existingOp.position[1] <= transformedOp.position[1]

\* the position test against an existing delete
DeleteShifts(existingOp, transformedOp) ==
  existingOp.position[1] < transformedOp.position[1]

\* one round of transformOperation's loop
TransformAgainst(transformedOp, existingOp) ==
  IF SameFromUser(existingOp, transformedOp) THEN transformedOp
  ELSE IF existingOp.type = "insert" /\ transformedOp.type \in {"insert", "delete"}
  THEN IF InsertShifts(existingOp, transformedOp)
       THEN [transformedOp EXCEPT !.position = Some(@[1] + TextLength(existingOp))]
       ELSE transformedOp
  ELSE IF existingOp.type = "delete" /\ transformedOp.type \in {"insert", "delete"}
  THEN IF DeleteShifts(existingOp, transformedOp)
       THEN [transformedOp EXCEPT !.position = Some(@[1] - DeleteLength(existingOp))]
       ELSE transformedOp
  ELSE transformedOp

RECURSIVE TransformLoop(_, _)
TransformLoop(transformedOp, sortedOps) ==
  IF sortedOps = <<>> THEN transformedOp
  ELSE TransformLoop(TransformAgainst(transformedOp, Head(sortedOps)),
                     Tail(sortedOps))

\* transformOperation(incomingOp, existingOps): the operation it returns; the
\* loop works on a copy of incomingOp
TransformOperation(incomingOp, existingOps) ==
  IF existingOps = <<>> THEN incomingOp
  ELSE TransformLoop(incomingOp, SortOps(existingOps))

Abs(x) == IF x < 0 THEN 0 - x ELSE x

\* validateOperation's filter
Conflicts(existingOp, incomingOp) ==
  /\ ~SameFromUser(existingOp, incomingOp)
  /\ Abs(TimestampOf(existingOp) - TimestampOf(incomingOp)) < 1000

\* validateOperation(incomingOp, existingOps)
ValidateOperation(incomingOp, existingOps) ==
  IF existingOps = <<>> THEN [isValid |-> TRUE, reason |-> "none"]
  ELSE IF TimestampOf(incomingOp) = 0
  THEN [isValid |-> FALSE, reason |-> "no timestamp"]
  ELSE IF \E i \in DOMAIN existingOps : Conflicts(existingOps[i], incomingOp)
  THEN [isValid |-> FALSE, reason |-> "conflict"]
  ELSE [isValid |-> TRUE, reason |-> "none"]

MaxPrior == 2

\* the incoming operation comes from user 1
IncomingOps ==
  {Stamped(op, ts, Some(1)) :
     op \in {InsertOp(1, p, <<"X">>) : p \in {2, 5}}
              \cup {DeleteOp(1, p, 1) : p \in {2, 5}},
     ts \in {None, Some(2000)}}

\* existing operations of user 1, with or without fromUserId, and of user 2
PriorOps ==
  {Stamped(op, Some(ts), from) :
     op \in {InsertOp(1, p, txt) : p \in {2, 4}, txt \in {<<"X">>, <<"A", "B">>}}
              \cup {DeleteOp(1, p, 2) : p \in {2, 4}},
     ts \in {1000, 1001},
     from \in {None, Some(1)}}
  \cup
  {Stamped(op, Some(ts), Some(2)) :
     op \in {InsertOp(2, p, txt) : p \in {2, 4}, txt \in {<<"X">>, <<"A", "B">>}}
              \cup {DeleteOp(2, p, 2) : p \in {2, 4}},
     ts \in {1000, 1001}}

otFrame == <<sessions, sock, emitted, call, doc, cl, up, down, relayLog,
             store, tab, pend, clock, hist, conn, rx, ed>>

OtInit ==
  /\ sessions = <<>>
  /\ sock = <<>>
  /\ emitted = <<>>
  /\ call = [kind |-> "none"]
  /\ doc = QuietDoc
  /\ cl = <<>>
  /\ up = <<>>
  /\ down = <<>>
  /\ relayLog = <<>>
  /\ store = None
  /\ tab = <<>>
  /\ pend = <<>>
  /\ clock = StartClock
  /\ ot \in {[incomingOp |-> op, existingOps |-> <<>>, kind |-> "none",
              passed |-> op, result |-> None] : op \in IncomingOps}
  /\ hist = <<>>
  /\ conn = <<>>
  /\ rx = <<>>
  /\ ed = <<>>

\* one more operation is on record before the call
OtAddExisting ==
  /\ ot.kind = "none"
  /\ Len(ot.existingOps) < MaxPrior
  /\ \E op \in PriorOps : ot' = [ot EXCEPT !.existingOps = Append(@, op)]
  /\ UNCHANGED otFrame

\* transformOperation(incomingOp, existingOps); passed is the object that was
\* passed in, as it is after the call
OtTransform ==
  /\ ot.kind = "none"
  /\ ot' = [ot EXCEPT !.kind = "transform",
                      !.passed = ot.incomingOp,
                      !.result = Some(TransformOperation(ot.incomingOp, ot.existingOps))]
  /\ UNCHANGED otFrame

\* validateOperation(incomingOp, existingOps)
OtValidate ==
  /\ ot.kind = "none"
  /\ ot' = [ot EXCEPT !.kind = "validate",
                      !.passed = ot.incomingOp,
                      !.result = Some(ValidateOperation(ot.incomingOp, ot.existingOps))]
  /\ UNCHANGED otFrame

OtNext ==
  \/ OtAddExisting
  \/ OtTransform
  \/ OtValidate

OtSpec == OtInit /\ [][OtNext]_vars

Transformed == ot.kind = "transform"
FromOthers(i) == ot.existingOps[i].userId # ot.incomingOp.userId

\* the position after the inserts of a list, taken in order
RECURSIVE AfterInserts(_, _)
AfterInserts(p, priors) ==
  IF priors = <<>> THEN p
  ELSE AfterInserts(IF Head(priors).position[1] <= p
                    THEN p + Len(Head(priors).text[1]) ELSE p,
                    Tail(priors))

\* the position after the deletes of a list, taken in order, a delete
\* counting when it lies strictly before (strict) or at or before the position
RECURSIVE AfterDeletes(_, _, _)
AfterDeletes(p, priors, strict) ==
  IF priors = <<>> THEN p
  ELSE AfterDeletes(IF \/ Head(priors).position[1] < p
                       \/ ~strict /\ Head(priors).position[1] = p
                    THEN p - Head(priors).length[1] ELSE p,
                    Tail(priors), strict)

\* C15: against prior Inserts of other users, transformOperation moves the
\* incoming Insert or Delete by the text length of every prior Insert lying at
\* or before its position as shifted so far, the priors taken in timestamp
\* order; insert@5 "X" against [insert@2 "AB"] gives position 7; the object
\* passed in is not modified.
C15_InsertsShiftForward ==
  /\ (Transformed
        /\ \A i \in DOMAIN ot.existingOps :
             ot.existingOps[i].type = "insert" /\ FromOthers(i))
       => /\ ot.result[1].position =
               Some(AfterInserts(ot.incomingOp.position[1], SortOps(ot.existingOps)))
          /\ ot.passed = ot.incomingOp
  /\ (Transformed
        /\ ot.incomingOp.type = "insert" /\ ot.incomingOp.position = Some(5)
        /\ ot.existingOps = <<Stamped(InsertOp(2, 2, <<"A", "B">>), Some(1000), Some(2))>>)
       => ot.result[1].position = Some(7)

\* insert@5 "X" was transformed against [insert@2 "AB"] of another user
C15_Witness ==
  /\ Transformed
  /\ ot.incomingOp.type = "insert" /\ ot.incomingOp.position = Some(5)
  /\ ot.existingOps = <<Stamped(InsertOp(2, 2, <<"A", "B">>), Some(1000), Some(2))>>
  /\ ot.result[1].position = Some(7)

OnlyDeletesOfOthers ==
  /\ ot.existingOps # <<>>
  /\ \A i \in DOMAIN ot.existingOps :
       ot.existingOps[i].type = "delete" /\ FromOthers(i)

\* C16 as stated: a prior Delete of length n of another user at q <= p,
\* q = p included, moves the incoming operation from p to p - n.
C16_DeleteAtOrBeforeShifts ==
  (Transformed /\ OnlyDeletesOfOthers)
    => ot.result[1].position =
         Some(AfterDeletes(ot.incomingOp.position[1], SortOps(ot.existingOps), FALSE))

\* C16 amended: a prior Delete of length n of another user moves the incoming
\* operation from p to p - n when it lies strictly before p (q < p); a prior
\* Delete at q = p leaves the position unchanged.
C16_DeleteStrictlyBeforeShifts ==
  (Transformed /\ OnlyDeletesOfOthers)
    => ot.result[1].position =
         Some(AfterDeletes(ot.incomingOp.position[1], SortOps(ot.existingOps), TRUE))

\* an operation at 2 was transformed against another user's delete at 2 and
\* kept its position
C16_Witness ==
  /\ Transformed
  /\ OnlyDeletesOfOthers
  /\ Len(ot.existingOps) = 1
  /\ ot.existingOps[1].position = ot.incomingOp.position
  /\ ot.result[1].position = ot.incomingOp.position

\* C17: when every prior operation has the userId of the incoming operation,
\* transformOperation returns the incoming position unchanged, whether or not
\* fromUserId is set on the operations.
C17_SameUserNeverTransformed ==
  (Transformed
     /\ \A i \in DOMAIN ot.existingOps : ~FromOthers(i))
    => ot.result[1].position = ot.incomingOp.position

\* C18: validateOperation reports not valid exactly when an existing
\* operation of another user has a timestamp less than 1000 ms away from the
\* incoming operation's timestamp, and it changes no operation.
C18_InvalidIffOtherUserWithinSecond ==
  ot.kind = "validate"
    => /\ ot.result[1].isValid =
            ~(\E i \in DOMAIN ot.existingOps :
                /\ FromOthers(i)
                /\ ot.existingOps[i].timestamp # None
                /\ ot.incomingOp.timestamp # None
                /\ Abs(ot.existingOps[i].timestamp[1]
                         - ot.incomingOp.timestamp[1]) < 1000)
       /\ ot.passed = ot.incomingOp

(***************************************************************************)
(* Collaboration service: the operation histories                          *)
(***************************************************************************)
\* TextOperationManager keeps the last 100 operations
HISTORY_LIMIT == 100

MaxHistory == 101

\* Array.prototype.slice(-n)
SliceLast(s, n) == IF Len(s) <= n THEN s ELSE SubSeq(s, Len(s) - n + 1, Len(s))

\* TextOperationManager.addOperation: the manager's operations afterwards
AddOperation(operations, operation) ==
  LET stamped == IF TimestampOf(operation) = 0
                 THEN [operation EXCEPT !.timestamp = Some(clock.now)]
                 ELSE operation
      pushed == Append(operations, stamped)
  IN IF Len(pushed) > HISTORY_LIMIT THEN SliceLast(pushed, HISTORY_LIMIT) ELSE pushed

\* the k-th operation handed to a history, stamped with the time of the call
AddedOp(k) == Stamped(DeleteOp(1, 0, 1), Some(k), Some(1))

histFrame == <<sessions, sock, emitted, call, doc, cl, up, down, relayLog,
               store, tab, pend, clock, ot, conn, rx, ed>>

HistInit ==
  /\ sessions = <<>>
  /\ sock = <<>>
  /\ emitted = <<>>
  /\ call = [kind |-> "none"]
  /\ doc = QuietDoc
  /\ cl = <<>>
  /\ up = <<>>
  /\ down = <<>>
  /\ relayLog = <<>>
  /\ store = None
  /\ tab = <<>>
  /\ pend = <<>>
  /\ clock = StartClock
  /\ ot = <<>>
  /\ hist = [manager |-> <<>>, managerAdded |-> 0,
             session |-> CreateSession(<<>>), sessionAdded |-> 0]
  /\ conn = <<>>
  /\ rx = <<>>
  /\ ed = <<>>

\* collaborationService.addOperation(sessionId, operation)
HistAddOperation ==
  /\ hist.managerAdded < MaxHistory
  /\ hist' = [hist EXCEPT
       !.manager = AddOperation(@, AddedOp(hist.managerAdded + 1)),
       !.managerAdded = @ + 1]
  /\ UNCHANGED histFrame

\* executeOperation(sessionId, operation)
HistExecuteOperation ==
  /\ hist.sessionAdded < MaxHistory
  /\ hist' = [hist EXCEPT
       !.session = ExecuteOperation(@, AddedOp(hist.sessionAdded + 1)),
       !.sessionAdded = @ + 1]
  /\ UNCHANGED histFrame

HistNext ==
  \/ HistAddOperation
  \/ HistExecuteOperation

HistSpec == HistInit /\ [][HistNext]_vars

\* the last 100 of the first n operations handed in, in insertion order
LastAdded(n) ==
  [i \in 1..Min(n, HISTORY_LIMIT) |-> AddedOp(n - Min(n, HISTORY_LIMIT) + i)]

\* C19: each operation history of a session, the manager's list and the list
\* executeOperation appends to, holds at most 100 operations, namely the most
\* recently added ones in insertion order.
C19_HistoriesKeepLastHundred ==
  /\ Len(hist.manager) <= HISTORY_LIMIT
  /\ hist.manager = LastAdded(hist.managerAdded)
  /\ Len(hist.session.operations) <= HISTORY_LIMIT
  /\ hist.session.operations = LastAdded(hist.sessionAdded)

(***************************************************************************)
(* Broker client: one connect() call and its retries (connectWithRetry,    *)
(* handleConnectionFailure)                                                *)
(***************************************************************************)
maxRetries == 3

MaxAttempts == 5
MaxErrors == 1

\* a socket made by io(serverUrl) in connectWithRetry(.., retriesLeft); its
\* timeout is pending until it fires
NewAttempt(retriesLeft) ==
  [retriesLeft |-> retriesLeft, stage |-> "opening", errors |-> 0,
   timeout |-> TRUE]

\* the sockets of a call: this.socket is the one made last, the earlier ones
\* stay open with their handlers and timeouts
Attempts(c) ==
  {<<"last", c.last[i]>> : i \in DOMAIN c.last}
    \cup {<<"earlier", s>> : s \in BagToSet(c.earlier)}

WithAttempt(c, a, socket) ==
  IF a[1] = "last" THEN [c EXCEPT !.last = Some(socket)]
  ELSE [c EXCEPT !.earlier = (@ (-) SetToBag({a[2]})) (+) SetToBag({socket})]

\* isConnected()
IsConnected(c) ==
  /\ c.connected
  /\ c.last # None
  /\ c.last[1].stage # "opening"

\* the promise of connect() settles once
Resolve(c, value) ==
  IF c.resolved = "pending" THEN [c EXCEPT !.resolved = value] ELSE c

\* connectWithRetry(sessionId, userId, userName, retriesLeft), same session
ConnectWithRetry(c, retriesLeft) ==
  IF IsConnected(c) THEN Resolve(c, "true")
  ELSE [c EXCEPT !.earlier = IF c.last = None THEN @
                             ELSE @ (+) SetToBag({c.last[1]}),
                 !.last = Some(NewAttempt(retriesLeft)),
                 !.attempts = @ + 1]

\* handleConnectionFailure(resolve, .., retriesLeft); retryCount, which is
\* written and never read, is left out
HandleConnectionFailure(c, retriesLeft) ==
  IF retriesLeft > 0
  THEN [c EXCEPT !.timers[retriesLeft] = @ + 1]
  ELSE Resolve([c EXCEPT !.exhausted = TRUE], "false")

\* attempts made or waiting for their 1 s timer; a failure that asks for one
\* more is looked at while MayFail holds
Scheduled(c) == c.attempts + c.timers[1] + c.timers[2] + c.timers[3]
MayFail(c, retriesLeft) == retriesLeft = 0 \/ Scheduled(c) < MaxAttempts

connFrameNoCall == <<sessions, sock, emitted, doc, cl, up, down, relayLog,
                     store, tab, pend, clock, ot, hist, rx, ed>>

connFrame == <<sessions, sock, emitted, call, doc, cl, up, down, relayLog,
               store, tab, pend, clock, ot, hist, rx, ed>>

ConnInit ==
  /\ sessions = <<>>
  /\ sock = <<>>
  /\ emitted = <<>>
  /\ call = [kind |-> "none"]
  /\ doc = QuietDoc
  /\ cl = <<>>
  /\ up = <<>>
  /\ down = <<>>
  /\ relayLog = <<>>
  /\ store = None
  /\ tab = <<>>
  /\ pend = <<>>
  /\ clock = StartClock
  /\ ot = <<>>
  /\ hist = <<>>
  /\ conn = [attempts |-> 0, last |-> None, earlier |-> EmptyBag,
             connected |-> FALSE, timers |-> [r \in 1..maxRetries |-> 0],
             exhausted |-> FALSE, resolved |-> "pending"]
  /\ rx = <<>>
  /\ ed = <<>>

\* connect(sessionId, userId, userName)
ConnConnect ==
  /\ conn.attempts = 0
  /\ conn' = ConnectWithRetry(conn, maxRetries)
  /\ UNCHANGED connFrame

\* the socket's connect event: join is emitted
ConnSocketConnect ==
  /\ \E a \in Attempts(conn) :
       /\ a[2].stage = "opening"
       /\ conn' = WithAttempt(conn, a, [a[2] EXCEPT !.stage = "up"])
  /\ UNCHANGED connFrame

\* connection_ack
ConnAck ==
  /\ \E a \in Attempts(conn), success \in BOOLEAN :
       /\ a[2].stage = "up"
       /\ success \/ MayFail(conn, a[2].retriesLeft)
       /\ conn' =
            IF success
            THEN Resolve([WithAttempt(conn, a, [a[2] EXCEPT !.stage = "acked"])
                            EXCEPT !.connected = TRUE], "true")
            ELSE HandleConnectionFailure(
                   [WithAttempt(conn, a, [a[2] EXCEPT !.stage = "refused"])
                      EXCEPT !.connected = FALSE],
                   a[2].retriesLeft)
  /\ UNCHANGED connFrame

\* the socket's error event
ConnError ==
  /\ \E a \in Attempts(conn) :
       /\ a[2].errors < MaxErrors
       /\ MayFail(conn, a[2].retriesLeft)
       /\ conn' = HandleConnectionFailure(
                    WithAttempt(conn, a, [a[2] EXCEPT !.errors = @ + 1]),
                    a[2].retriesLeft)
  /\ UNCHANGED connFrame

\* the 5 s timeout of an attempt
ConnTimeout ==
  /\ \E a \in Attempts(conn) :
       /\ a[2].timeout
       /\ conn.connected \/ MayFail(conn, a[2].retriesLeft)
       /\ conn' =
            IF ~conn.connected
            THEN HandleConnectionFailure(
                   WithAttempt(conn, a, [a[2] EXCEPT !.timeout = FALSE]),
                   a[2].retriesLeft)
            ELSE WithAttempt(conn, a, [a[2] EXCEPT !.timeout = FALSE])
  /\ UNCHANGED connFrame

\* the 1 s timer set by handleConnectionFailure
ConnRetry ==
  /\ \E r \in 1..maxRetries :
       /\ conn.timers[r] > 0
       /\ conn' = ConnectWithRetry([conn EXCEPT !.timers[r] = @ - 1], r - 1)
  /\ UNCHANGED connFrame

ConnNext ==
  \/ ConnConnect
  \/ ConnSocketConnect
  \/ ConnAck
  \/ ConnError
  \/ ConnTimeout
  \/ ConnRetry

ConnSpec == ConnInit /\ [][ConnNext]_vars

\* C20: one connect() call makes at most 4 connection attempts, the first
\* and at most 3 retries, whatever errors, failed acks and timeouts occur,
\* and its promise is settled once an attempt without retries left failed.
C20_AtMostFourAttempts ==
  /\ conn.attempts <= maxRetries + 1
  /\ conn.exhausted => conn.resolved # "pending"

\* the sockets of a call whose join the server refused
Refused(c) ==
  Cardinality({i \in DOMAIN c.last : c.last[i].stage = "refused"})
    + BagCardinality([s \in {x \in BagToSet(c.earlier) : x.stage = "refused"}
                        |-> CopiesIn(s, c.earlier)])

\* C21: a failed connection_ack settles connect() as failed at once and
\* schedules no retry, and no connection attempt is started after it.
C21_RefusalIsTerminal ==
  [][/\ Refused(conn') > Refused(conn)
          => conn'.resolved = "false" /\ conn'.timers = conn.timers
     /\ Refused(conn) > 0 => conn'.attempts = conn.attempts]_vars

(***************************************************************************)
(* The local peer transport joining a session that is nearly full          *)
(* (websocketService.ts connect, updateLocalUserList, syncUsers)           *)
(***************************************************************************)
\* connect()'s limit on the users list
LOCAL_MAX_USERS == 8

\* the users of other browsers that joined the session before, ids 3, 4, ...
EarlierUsers(n) ==
  [i \in 1..n |-> [id |-> i + 2, name |-> NameOf(i + 2), status |-> "online",
                   lastActive |-> StartClock.now]]

\* what connect()'s try block throws once the users list is read
ConnectThrows(L, me, userId, userName) ==
  LET users == LocalUsersOf(DisconnectStorage(L, me).users)
  IN IF Len(users) >= LOCAL_MAX_USERS THEN "full"
     ELSE IF LocalIsDuplicateName(users, userId, userName) THEN "name"
     ELSE "none"

\* the value connect()'s promise resolves with: resolve(true), or the
\* resolve(false) of the catch block
ConnectResolves(t, userId, userName) ==
  IF tab[t].connected /\ tab[t].userId = userId THEN "true"
  ELSE IF ConnectThrows(Stored, tab[t], userId, userName) = "none" THEN "true"
  ELSE "false"

CrowdInit ==
  /\ sessions = <<>>
  /\ sock = <<>>
  /\ emitted = <<>>
  /\ call = [kind |-> "none"]
  /\ doc = QuietDoc
  /\ cl = <<>>
  /\ up = <<>>
  /\ down = <<>>
  /\ relayLog = <<>>
  /\ \E n \in {LOCAL_MAX_USERS - 2, LOCAL_MAX_USERS - 1} :
       store = Some(EarlierUsers(n))
  /\ tab = [t \in Tabs |-> IdleTab]
  /\ pend = [t \in Tabs |-> <<>>]
  /\ clock = StartClock
  /\ ot = <<>>
  /\ hist = <<>>
  /\ conn = <<>>
  /\ rx = <<>>
  /\ ed = <<>>

\* connect() on a tab; call records what the try block threw and what the
\* caller's promise resolved with
CrowdConnect ==
  /\ MayCall
  /\ \E t \in Tabs : \E userId \in {1, t} :
       \E userName \in {NameOf(userId), NameOf(3)} :
         /\ TabConnect(t, userId, userName)
         /\ call' = [kind |-> "connect", tab |-> t,
                     thrown |-> IF tab[t].connected /\ tab[t].userId = userId
                                THEN "none"
                                ELSE ConnectThrows(Stored, tab[t], userId, userName),
                     result |-> ConnectResolves(t, userId, userName)]
  /\ UNCHANGED <<sessions, sock, emitted, doc, cl, up, down, relayLog,
                 serviceVars, clock>>

CrowdNext ==
  \/ CrowdConnect
  \/ LocalDisconnect
  \/ LocalRequestSyncUsers
  \/ LocalSyncTimer
  \/ LocalDeliver

CrowdSpec == CrowdInit /\ [][CrowdNext]_vars

\* C22: a connect() refused because the session is full or the name is taken
\* hands its caller the reason of the refusal, so that the caller can tell a
\* full session from a taken name.
C22_CallerReceivesReason ==
  (call.kind = "connect" /\ call.thrown # "none") => call.result = call.thrown

\* C28: the shared users list of the local peer transport never holds more
\* than 8 entries.
C28_AtMostEightUsers == Len(LocalUsersOf(store)) <= LOCAL_MAX_USERS

(***************************************************************************)
(* One client of the local peer transport and the storage events it is     *)
(* handed: handleStorageChange, handleStorageEvent and lastMessageId       *)
(* (websocketService.ts)                                                   *)
(***************************************************************************)
MaxMessageIds == 3
MaxStorageEvents == 4

\* the message written under message id `id` by another tab: an operation of
\* user 2 under the odd ids, the join of user 2 under the even ones
Envelope(id) ==
  IF id % 2 = 1
  THEN [type |-> "operation", messageId |-> id,
        payload |-> [fromUserId |-> 2, operation |-> InsertOp(2, 0, <<"x">>)]]
  ELSE [type |-> "join", messageId |-> id,
        payload |-> [user |-> [id |-> 2, name |-> NameOf(2), status |-> "online"]]]

\* the uuidv4() of the client's k-th own broadcast
OwnMessageId(k) == 0 - k

\* what a dispatch to the registered message handlers is remembered by
Dispatched(message) == [type |-> message.type, messageId |-> message.messageId]

\* receiveMessage(message) on the client r: the users list is updated, every
\* broadcast made on the way takes a new id, becomes the last message id and
\* is received by the client itself, and the handlers get the message
RxReceiveMessage(r, message) ==
  LET L == ReceiveMessage([users |-> r.users, out |-> <<>>], r.me, message)
      n == Len(L.out)
  IN [r EXCEPT !.users = L.users,
               !.lastMessageId = IF n > 0 THEN OwnMessageId(r.uuids + n) ELSE @,
               !.uuids = @ + n,
               !.dispatched =
                  @ \o [i \in 1..n |->
                          [type |-> L.out[i].type,
                           messageId |-> OwnMessageId(r.uuids + i)]]
                    \o <<Dispatched(message)>>]

\* handleStorageChange, the listener of the constructor
HandleStorageChange(r, message) ==
  IF ~r.me.hasSession \/ ~r.me.connected THEN r
  ELSE IF message.messageId # 0 /\ message.messageId # r.lastMessageId
  THEN RxReceiveMessage([r EXCEPT !.lastMessageId = message.messageId], message)
  ELSE r

\* handleStorageEvent, the listener connect() registers
HandleStorageEvent(r, message) ==
  IF ~r.me.listening \/ ~r.me.hasSession THEN r
  ELSE IF message.messageId = r.lastMessageId THEN r
  ELSE RxReceiveMessage(r, message)

\* broadcastMessage(message) by the client itself
RxBroadcastMessage(r, message) ==
  LET own == [message EXCEPT !.messageId = OwnMessageId(r.uuids + 1)]
  IN RxReceiveMessage([r EXCEPT !.lastMessageId = own.messageId,
                                !.uuids = @ + 1], own)

RxInit ==
  /\ sessions = <<>>
  /\ sock = <<>>
  /\ emitted = <<>>
  /\ call = [kind |-> "none"]
  /\ doc = QuietDoc
  /\ cl = <<>>
  /\ up = <<>>
  /\ down = <<>>
  /\ relayLog = <<>>
  /\ store = None
  /\ tab = <<>>
  /\ pend = <<>>
  /\ clock = StartClock
  /\ ot = <<>>
  /\ hist = <<>>
  /\ conn = <<>>
  /\ rx = [me |-> IdleTab, users |-> None, lastMessageId |-> 0, uuids |-> 0,
           events |-> 0, dispatched |-> <<>>]
  /\ ed = <<>>

rxFrame == <<sessions, sock, emitted, call, doc, cl, up, down, relayLog,
             store, tab, pend, clock, ot, hist, conn, ed>>

\* connect(session, 1, "a") on the idle client: the user is stored and the
\* join is broadcast
RxConnect ==
  /\ ~rx.me.hasSession
  /\ LET me1 == [rx.me EXCEPT !.connected = TRUE, !.hasSession = TRUE,
                              !.listening = TRUE, !.userId = 1,
                              !.userName = NameOf(1)]
         user == LocalUser(1, NameOf(1), "online")
     IN rx' = RxBroadcastMessage(
                [rx EXCEPT !.me = me1, !.users = Some(<<user>>)],
                [type |-> "join", messageId |-> 0, payload |-> [user |-> user]])
  /\ UNCHANGED rxFrame

\* the client broadcasts a message of its own: sendOperation
RxSendOperation ==
  /\ rx.me.connected
  /\ rx.events < MaxStorageEvents
  /\ rx' = [RxBroadcastMessage(rx,
              [type |-> "operation", messageId |-> 0,
               payload |-> [fromUserId |-> 1,
                            operation |-> InsertOp(1, 0, <<"y">>)]])
            EXCEPT !.events = @ + 1]
  /\ UNCHANGED rxFrame

\* the browser hands a storage event of the message key to both listeners,
\* the constructor's first
RxStorageEvent ==
  /\ rx.me.hasSession
  /\ rx.events < MaxStorageEvents
  /\ \E id \in 1..MaxMessageIds :
       rx' = [HandleStorageEvent(HandleStorageChange(rx, Envelope(id)),
                                 Envelope(id))
              EXCEPT !.events = @ + 1]
  /\ UNCHANGED rxFrame

RxNext ==
  \/ RxConnect
  \/ RxStorageEvent
  \/ RxSendOperation

RxSpec == RxInit /\ [][RxNext]_vars

\* C23: a message id the client has processed is not processed again,
\* whenever and through whichever listener it is delivered again: no message
\* id is dispatched twice.
C23_NoMessageProcessedTwice ==
  \A i, j \in DOMAIN rx.dispatched :
    i # j => rx.dispatched[i].messageId # rx.dispatched[j].messageId

(***************************************************************************)
(* The status values of the broker's participants (server.ts)              *)
(***************************************************************************)
\* enum UserStatus
UserStatus == {"online", "away", "offline"}

\* the user lists and users carried by what the last handler emitted
EmittedUsers ==
  {e.data.payload.user :
     e \in {x \in {emitted[i] : i \in DOMAIN emitted} :
              x.event = "message" /\ x.data.type = "join"}}
  \cup UNION {{e.data.payload.users[i] : i \in DOMAIN e.data.payload.users} :
     e \in {x \in {emitted[i] : i \in DOMAIN emitted} :
              x.event = "message" /\ x.data.type = "sync"}}

\* C29: every participant's status is online, away or offline, in the
\* broker's registry and in every join message and user list it emits.
C29_StatusIsOnlineAwayOffline ==
  /\ \A sid \in DOMAIN sessions : \A i \in DOMAIN sessions[sid].users :
       sessions[sid].users[i].status \in UserStatus
  /\ \A u \in EmittedUsers : u.status \in UserStatus

(***************************************************************************)
(* The broker's periodic sweep of expired sessions (server.ts)             *)
(***************************************************************************)
SESSION_CLEANUP_INTERVAL == 1800000
MaxSweepTicks == 3

\* variant: a session is swept as soon as its content is old
SessionExpiredWithUsers(session, now) ==
  now - session.lastUpdated > SESSION_CLEANUP_INTERVAL

\* session.users.length === 0 && (now - session.lastUpdated) > SESSION_CLEANUP_INTERVAL
SessionExpired(session, now) ==
  /\ Len(session.users) = 0
  /\ now - session.lastUpdated > SESSION_CLEANUP_INTERVAL

\* the registry after the for ... in loop of the sweep
CleanSessions(now) ==
  [sid \in {x \in DOMAIN sessions : ~SessionExpired(sessions[x], now)}
     |-> sessions[sid]]

\* the setInterval fires every SESSION_CLEANUP_INTERVAL after the start
SweepTimerFires ==
  /\ clock.now > StartClock.now
  /\ (clock.now - StartClock.now) % SESSION_CLEANUP_INTERVAL = 0

SweepInit ==
  /\ sessions = <<>>
  /\ sock = [s \in Sockets |-> IdleSocket]
  /\ emitted = <<>>
  /\ call = [kind |-> "none"]
  /\ doc = QuietDoc
  /\ cl = <<>>
  /\ up = <<>>
  /\ down = <<>>
  /\ relayLog = <<>>
  /\ store = <<>>
  /\ tab = <<>>
  /\ pend = <<>>
  /\ clock = StartClock
  /\ ot = <<>>
  /\ hist = <<>>
  /\ conn = <<>>
  /\ rx = <<>>
  /\ ed = <<>>

\* the callback of setInterval(..., SESSION_CLEANUP_INTERVAL)
BrokerSweep ==
  /\ SweepTimerFires
  /\ call.kind # "sweep"
  /\ sessions' = CleanSessions(clock.now)
  /\ call' = [kind |-> "sweep"]
  /\ emitted' = <<>>
  /\ UNCHANGED <<sock, nonBrokerVars>>

\* time passes between two events of the server
SweepTick ==
  /\ clock.ticks < MaxSweepTicks
  /\ \E step \in {SESSION_CLEANUP_INTERVAL \div 2, SESSION_CLEANUP_INTERVAL} :
       clock' = [now |-> clock.now + step, ticks |-> clock.ticks + 1]
  /\ call' = [kind |-> "tick"]
  /\ UNCHANGED <<sessions, sock, emitted, doc, cl, up, down, relayLog,
                 store, tab, pend, serviceVars>>

\* a socket joins "s1" under its own id and name
SweepJoin ==
  /\ \E s \in DynamicSockets : Join(s, "s1", s, NameOf(s))
  /\ UNCHANGED nonBrokerVars

\* a participant sends the content, which refreshes lastUpdated
SweepMessage ==
  /\ \E s \in DynamicSockets : Message(s, ContentMsg(Some(<<"b">>)))
  /\ UNCHANGED nonBrokerVars

SweepDisconnect ==
  /\ \E s \in DynamicSockets : Disconnect(s)
  /\ UNCHANGED nonBrokerVars

SweepNext ==
  \/ SweepJoin
  \/ SweepMessage
  \/ SweepDisconnect
  \/ BrokerApiCreate
  \/ BrokerSweep
  \/ SweepTick

SweepSpec == SweepInit /\ [][SweepNext]_vars

\* C30: a session leaves the registry only in a step of the periodic sweep,
\* and only if it had no participants and its lastUpdated was older than
\* the cleanup interval at that moment; no leave or disconnect deletes a
\* session and no session with a participant is deleted.
C30_OnlySweepDeletesExpiredEmpty ==
  [][\A sid \in DOMAIN sessions :
       sid \notin DOMAIN sessions'
         => /\ call'.kind = "sweep"
            /\ Len(sessions[sid].users) = 0
            /\ clock.now - sessions[sid].lastUpdated > SESSION_CLEANUP_INTERVAL]_vars

\* the sweep has just removed the only session, which a disconnect had
\* emptied
C30_Witness ==
  /\ call.kind = "sweep"
  /\ DOMAIN sessions = {}
  /\ \E s \in DynamicSockets : ~sock[s].open /\ sock[s].currentSessionId # None

(***************************************************************************)
(* The participant list of the editor (NovelEditor activeUsers) on a       *)
(* client of the broker                                                    *)
(***************************************************************************)
\* handleWebSocketMessage: the cases that call setActiveUsers
SetActiveUsers(prev, message) ==
  CASE message.type = "join" ->
         IF message.payload.user.id \in Ids(prev) THEN prev
         ELSE Append(prev, message.payload.user)
    [] message.type = "leave" -> FilterOutId(prev, message.payload.userId)
    [] message.type = "sync" -> message.payload.users
    [] OTHER -> prev

\* the 'message' events the last handler of the broker emitted to socket s
MessagesTo(s, events) ==
  SelectSeq(events, LAMBDA e : e.event = "message" /\ s \in e.to)

RECURSIVE ReceiveAll(_, _)
ReceiveAll(prev, events) ==
  IF events = <<>> THEN prev
  ELSE ReceiveAll(SetActiveUsers(prev, Head(events).data), Tail(events))

\* connectWebSocket after connect() resolved true, and the connection status
\* handler: the editor adds itself unless its id is in the list
AddSelf(prev, userId) ==
  IF userId \in Ids(prev) THEN prev
  ELSE Append(prev, [id |-> userId, name |-> NameOf(userId), status |-> "online"])

IdleEditor == [socket |-> 0, userId |-> 0, connected |-> FALSE, activeUsers |-> <<>>]

\* the editor's list once it has received what the broker just emitted to it
EditorReceives ==
  IF ed.socket = 0 THEN ed
  ELSE [ed EXCEPT !.activeUsers = ReceiveAll(@, MessagesTo(ed.socket, emitted'))]

edFrame == <<doc, cl, up, down, relayLog, store, tab, pend, clock, ot, hist, conn, rx>>

EditorInit ==
  /\ sessions = PrefilledSessions
  /\ sock = PrefilledSockets
  /\ emitted = <<>>
  /\ call = [kind |-> "none"]
  /\ doc = QuietDoc
  /\ cl = <<>>
  /\ up = <<>>
  /\ down = <<>>
  /\ relayLog = <<>>
  /\ store = <<>>
  /\ tab = <<>>
  /\ pend = <<>>
  /\ clock = StartClock
  /\ ot = <<>>
  /\ hist = <<>>
  /\ conn = <<>>
  /\ rx = <<>>
  /\ ed = IdleEditor

\* connectWebSocket: the editor's client joins on a new socket, under a new
\* id or under the id of user 1, whose earlier socket the broker still holds
EditorConnect ==
  /\ ed.socket = 0
  /\ \E s \in DynamicSockets : \E userId \in JoinUserIds(s) :
       /\ Join(s, "s1", userId, NameOf(userId))
       /\ LET acked == \E i \in DOMAIN emitted' :
                         /\ emitted'[i].event = "connection_ack"
                         /\ emitted'[i].data.success
              list == ReceiveAll(ed.activeUsers, MessagesTo(s, emitted'))
          IN ed' = IF acked
                   THEN [socket |-> s, userId |-> userId, connected |-> TRUE,
                         activeUsers |-> AddSelf(list, userId)]
                   ELSE [ed EXCEPT !.activeUsers = list]
  /\ UNCHANGED edFrame

\* requestSyncUsers() of the editor's client
EditorRequestSync ==
  /\ ed.connected
  /\ RequestSync(ed.socket)
  /\ ed' = EditorReceives
  /\ UNCHANGED edFrame

\* disconnectWebSocket
EditorDisconnect ==
  /\ ed.connected
  /\ Disconnect(ed.socket)
  /\ ed' = [ed EXCEPT !.connected = FALSE, !.activeUsers = <<>>]
  /\ UNCHANGED edFrame

\* another socket joins the session
EditorPeerJoin ==
  /\ \E s \in DynamicSockets \ {ed.socket} : Join(s, "s1", s, NameOf(s))
  /\ ed' = EditorReceives
  /\ UNCHANGED edFrame

\* the broker notices that another socket is gone
EditorPeerDisconnect ==
  /\ \E s \in DisconnectSockets \ {ed.socket} : Disconnect(s)
  /\ ed' = EditorReceives
  /\ UNCHANGED edFrame

EditorNext ==
  \/ EditorConnect
  \/ EditorRequestSync
  \/ EditorDisconnect
  \/ EditorPeerJoin
  \/ EditorPeerDisconnect

EditorSpec == EditorInit /\ [][EditorNext]_vars

\* C25: while the editor's client is connected, the participant list the
\* editor exposes holds the client's own id and holds no id twice.
C25_SelfListedOnce ==
  ed.connected => (ed.userId \in Ids(ed.activeUsers) /\ UniqueIds(ed.activeUsers))

(***************************************************************************)
(* Dispatch of a received message to the registered message handlers, in   *)
(* the broker client and in the local peer transport                       *)
(***************************************************************************)
MaxHandlers == 3

\* the handlers a forEach reaches when an exception of a handler ends it
UntilThrow(handlers) ==
  LET throwing == {i \in DOMAIN handlers : handlers[i].throws}
  IN IF throwing = {} THEN DOMAIN handlers
     ELSE 1..(CHOOSE i \in throwing : \A j \in throwing : i <= j)

\* broker client receiveMessage: each handler runs in its own try/catch
ClientReceiveMessage(handlers) ==
  [invoked |-> DOMAIN handlers, thrown |-> FALSE]

\* local transport receiveMessage: messageHandlers.forEach(handler => handler(message))
LocalReceiveMessage(handlers) ==
  [invoked |-> UntilThrow(handlers),
   thrown |-> \E i \in DOMAIN handlers : handlers[i].throws]

DispatchInit ==
  /\ sessions = <<>>
  /\ sock = <<>>
  /\ emitted = <<>>
  /\ call = [kind |-> "none"]
  /\ doc = QuietDoc
  /\ cl = <<>>
  /\ up = <<>>
  /\ down = <<>>
  /\ relayLog = <<>>
  /\ store = <<>>
  /\ tab = <<>>
  /\ pend = <<>>
  /\ clock = StartClock
  /\ ot = <<>>
  /\ hist = <<>>
  /\ conn = <<>>
  /\ rx = [handlers |-> <<>>, transport |-> "none", type |-> "none",
           invoked |-> {}, escaped |-> FALSE]
  /\ ed = <<>>

\* onMessage(handler): the handler throws on the messages it gets, or not
DispatchOnMessage ==
  /\ Len(rx.handlers) < MaxHandlers
  /\ \E throws \in BOOLEAN :
       rx' = [rx EXCEPT !.handlers = Append(@, [throws |-> throws])]
  /\ UNCHANGED rxFrame

\* socket.on('message') of the broker client
DispatchClientMessage ==
  /\ \E type \in {"operation", "cursor", "sync"} :
       LET d == ClientReceiveMessage(rx.handlers)
       IN rx' = [rx EXCEPT !.transport = "broker", !.type = type,
                           !.invoked = d.invoked, !.escaped = d.thrown]
  /\ UNCHANGED rxFrame

\* handleStorageChange of the local transport: receiveMessage runs inside
\* the listener's try, whose catch logs the exception
DispatchStorageChange ==
  /\ \E type \in {"operation", "cursor", "sync"} :
       LET d == LocalReceiveMessage(rx.handlers)
       IN rx' = [rx EXCEPT !.transport = "local", !.type = type,
                           !.invoked = d.invoked, !.escaped = FALSE]
  /\ UNCHANGED rxFrame

DispatchNext ==
  \/ DispatchOnMessage
  \/ DispatchClientMessage
  \/ DispatchStorageChange

DispatchSpec == DispatchInit /\ [][DispatchNext]_vars

\* C26: when a message is dispatched, every registered handler is invoked,
\* whichever of them throw, and no exception leaves the dispatch, in the
\* broker client and in the local peer transport.
C26_DispatchReachesAll ==
  [][rx'.handlers = rx.handlers
       => (rx'.invoked = DOMAIN rx.handlers /\ ~rx'.escaped)]_vars

(***************************************************************************)
(* The local peer transport reading a users entry that is not JSON         *)
(* (websocketService.ts connect)                                           *)
(***************************************************************************)
\* a users entry whose text JSON.parse rejects; it is no Some(list)
Malformed == <<<<>>, <<>>>>

\* usersData ? JSON.parse(usersData) : []
JsonParseThrows(entry) == Len(entry) > 1

\* connect() whose JSON.parse of the users entry throws: the catch block
\* leaves the session and user fields set, connected false, resolve(false)
ConnectCaught(me, userId, userName) ==
  [me EXCEPT !.connected = FALSE, !.hasSession = TRUE, !.listening = TRUE,
             !.userId = userId, !.userName = userName, !.ops = @ + 1]

ParseInit ==
  /\ sessions = <<>>
  /\ sock = <<>>
  /\ emitted = <<>>
  /\ call = [kind |-> "none"]
  /\ doc = QuietDoc
  /\ cl = <<>>
  /\ up = <<>>
  /\ down = <<>>
  /\ relayLog = <<>>
  /\ store \in {None, Malformed}
  /\ tab = [t \in Tabs |-> IdleTab]
  /\ pend = [t \in Tabs |-> <<>>]
  /\ clock = StartClock
  /\ ot = <<>>
  /\ hist = <<>>
  /\ conn = <<>>
  /\ rx = <<>>
  /\ ed = <<>>

\* connect() on a tab; call records whether the users entry it read was
\* malformed and what the caller's promise resolved with
ParseConnect ==
  /\ MayCall
  /\ \E t \in Tabs : \E userId \in {1, t} :
       \E userName \in {NameOf(userId), <<"A">>} :
         IF JsonParseThrows(store) /\ ~tab[t].connected
         THEN /\ tab' = [tab EXCEPT ![t] = ConnectCaught(@, userId, userName)]
              /\ call' = [kind |-> "connect", tab |-> t, malformed |-> TRUE,
                          result |-> "false"]
              /\ UNCHANGED <<store, pend>>
         ELSE /\ TabConnect(t, userId, userName)
              /\ call' = [kind |-> "connect", tab |-> t, malformed |-> FALSE,
                          result |-> ConnectResolves(t, userId, userName)]
  /\ UNCHANGED <<sessions, sock, emitted, doc, cl, up, down, relayLog,
                 serviceVars, clock>>

ParseNext ==
  \/ ParseConnect
  \/ LocalDisconnect
  \/ LocalRequestSyncUsers
  \/ LocalSyncTimer
  \/ LocalDeliver

ParseSpec == ParseInit /\ [][ParseNext]_vars

\* C27: a connect() that finds the persisted participant list malformed
\* proceeds with an empty list: it resolves true and the client is connected.
C27_ConnectJoinsDespiteMalformedList ==
  (call.kind = "connect" /\ call.malformed)
    => (call.result = "true" /\ tab[call.tab].connected)

(***************************************************************************)
(* A message envelope on its way from the sender to a receiving client:    *)
(* through localStorage (JSON text) and through the broker's relay         *)
(***************************************************************************)
MaxEnvelopes == 3
PayloadKeys == {"userId", "content"}

\* the messages a client is asked to send
OutgoingMessages ==
  {[type |-> type, payload |-> [userId |-> u, content |-> c]] :
     type \in {"operation", "cursor", "content"},
     u \in {None, Some(1)}, c \in {None, Some(<<"b">>)}}

\* { ...message, timestamp: Date.now(), messageId: uuidv4() }
Enriched(message, k) ==
  [type |-> message.type, payload |-> message.payload,
   timestamp |-> clock.now, messageId |-> OwnMessageId(k)]

\* JSON.stringify of a payload: the keys whose value is undefined are left out
JsonStringify(payload) ==
  [k \in {x \in PayloadKeys : payload[x] # None} |-> payload[k][1]]

\* JSON.parse of the text: a key that is not there reads as undefined
JsonParse(text) ==
  [k \in PayloadKeys |-> IF k \in DOMAIN text THEN Some(text[k]) ELSE None]

\* the envelope read back from the message key of localStorage
StoredAndRead(envelope) ==
  [envelope EXCEPT !.payload = JsonParse(JsonStringify(envelope.payload))]

EnvelopeInit ==
  /\ sessions = <<>>
  /\ sock = <<>>
  /\ emitted = <<>>
  /\ call = [kind |-> "none"]
  /\ doc = QuietDoc
  /\ cl = <<>>
  /\ up = <<>>
  /\ down = <<>>
  /\ relayLog = <<>>
  /\ store = <<>>
  /\ tab = <<>>
  /\ pend = <<>>
  /\ clock = StartClock
  /\ ot = <<>>
  /\ hist = <<>>
  /\ conn = <<>>
  /\ rx = [uuids |-> 0, via |-> "none", sent |-> None, wire |-> None,
           received |-> None]
  /\ ed = <<>>

envelopeFrame == <<sessions, sock, emitted, call, doc, cl, up, down, relayLog,
                   store, tab, pend, ot, hist, conn, ed>>

\* local transport broadcastMessage, and the storage listener of another tab
EnvelopeBroadcast ==
  /\ rx.wire = None
  /\ rx.uuids < MaxEnvelopes
  /\ \E message \in OutgoingMessages :
       LET envelope == Enriched(message, rx.uuids + 1)
       IN rx' = [uuids |-> rx.uuids + 1, via |-> "local",
                 sent |-> Some(envelope), wire |-> None,
                 received |-> Some(StoredAndRead(envelope))]
  /\ UNCHANGED <<envelopeFrame, clock>>

\* broker client sendMessage: socket.emit('message', enrichedMessage)
EnvelopeSend ==
  /\ rx.wire = None
  /\ rx.uuids < MaxEnvelopes
  /\ \E message \in OutgoingMessages :
       LET envelope == Enriched(message, rx.uuids + 1)
       IN rx' = [uuids |-> rx.uuids + 1, via |-> "broker",
                 sent |-> Some(envelope), wire |-> Some(envelope),
                 received |-> None]
  /\ UNCHANGED <<envelopeFrame, clock>>

\* the broker's socket.on('message'): the envelope is stamped again and
\* emitted to the room, where the receiving client's handlers get it
EnvelopeRelay ==
  /\ rx.wire # None
  /\ rx' = [rx EXCEPT !.uuids = @ + 1, !.wire = None,
                      !.received = Some(Enriched(rx.wire[1], rx.uuids + 1))]
  /\ UNCHANGED <<envelopeFrame, clock>>

\* time passes
EnvelopeTick ==
  /\ clock.ticks < MaxTicks
  /\ clock' = [now |-> clock.now + 1, ticks |-> clock.ticks + 1]
  /\ UNCHANGED <<envelopeFrame, rx>>

EnvelopeNext ==
  \/ EnvelopeBroadcast
  \/ EnvelopeSend
  \/ EnvelopeRelay
  \/ EnvelopeTick

EnvelopeSpec == EnvelopeInit /\ [][EnvelopeNext]_vars

\* C24: the message a receiving client decodes has the type, payload,
\* timestamp and message id of the envelope the sender encoded, through the
\* local store and through the broker relay.
C24_EnvelopeArrivesUnchanged ==
  rx.received # None
    => /\ rx.received[1].type = rx.sent[1].type
       /\ rx.received[1].payload = rx.sent[1].payload
       /\ rx.received[1].timestamp = rx.sent[1].timestamp
       /\ rx.received[1].messageId = rx.sent[1].messageId

(***************************************************************************)
(* The broker client after its connect() has given up                      *)
(***************************************************************************)
\* C40: once connect() has resolved false the client is not connected: the
\* sockets of the call's abandoned attempts no longer change its state.
C40_GivenUpStaysDisconnected ==
  conn.resolved = "false" => ~conn.connected


(* The two heartbeat paths of the local transport *)
HeartbeatStatuses == {"online", "away", "offline"}

HeartbeatUser(id) ==
  {[id |-> id, name |-> NameOf(id), status |-> st, lastActive |-> la] :
     st \in HeartbeatStatuses, la \in {1, 2}}

\* the participant lists heartbeats meet: one or two participants, each last
\* active before now
HeartbeatLists ==
  {<<u>> : u \in HeartbeatUser(1)}
    \cup {<<u, v>> : u \in HeartbeatUser(1), v \in HeartbeatUser(2)}

HeartbeatTab(t) ==
  [IdleTab EXCEPT !.connected = TRUE, !.hasSession = TRUE, !.listening = TRUE,
                  !.userId = t, !.userName = NameOf(t), !.cleanup = TRUE]

HeartbeatInit ==
  /\ sessions = <<>>
  /\ sock = <<>>
  /\ emitted = <<>>
  /\ call = [kind |-> "none"]
  /\ doc = QuietDoc
  /\ cl = <<>>
  /\ up = <<>>
  /\ down = <<>>
  /\ relayLog = <<>>
  /\ store \in {Some(users) : users \in HeartbeatLists}
  /\ tab = [t \in Tabs |-> HeartbeatTab(t)]
  /\ pend = [t \in Tabs |-> <<>>]
  /\ clock = [now |-> 3, ticks |-> 0]
  /\ ot = <<>>
  /\ hist = <<>>
  /\ conn = <<>>
  /\ rx = <<>>
  /\ ed = <<>>

\* a storage event carrying a heartbeat message reaches a tab
HeartbeatArrives ==
  /\ PresenceMayCall
  /\ \E t \in Tabs : \E userId \in Tabs :
       /\ pend' = [pend EXCEPT ![t] =
                     Append(@, [type |-> "heartbeat",
                                payload |-> [userId |-> userId]])]
       /\ tab' = [tab EXCEPT ![t].ops = @ + 1]
       /\ call' = [kind |-> "heartbeat", tab |-> t]
  /\ UNCHANGED <<presenceFrame, store, clock>>

HeartbeatNext ==
  \/ HeartbeatArrives
  \/ PresenceSendHeartbeat
  \/ PresenceDeliver
  \/ PresenceTick

HeartbeatSpec == HeartbeatInit /\ [][HeartbeatNext]_vars

\* C36: handling a received heartbeat message for an Away participant makes it
\* Online with lastActive refreshed, while sendHeartbeat for an Away participant
\* refreshes lastActive and leaves the status Away.
C36_HeartbeatPathsDiffer ==
  [][/\ (/\ call'.kind = "deliver"
         /\ call'.message.type = "heartbeat"
         /\ call'.handled
         /\ StatusOf(store, call'.message.payload.userId) = "away")
        => /\ StatusOf(store', call'.message.payload.userId) = "online"
           /\ EntryOf(store', call'.message.payload.userId).lastActive = clock.now
     /\ (/\ call'.kind = "sendHeartbeat"
         /\ StatusOf(store, tab[call'.tab].userId) = "away")
        => /\ StatusOf(store', tab[call'.tab].userId) = "away"
           /\ EntryOf(store', tab[call'.tab].userId).lastActive = clock.now]_vars

\* a received heartbeat has just made one participant Online while another,
\* refreshed by its own sendHeartbeat, is still Away
C36_Witness ==
  /\ call.kind = "deliver"
  /\ call.message.type = "heartbeat"
  /\ call.handled
  /\ StatusOf(store, call.message.payload.userId) = "online"
  /\ EntryOf(store, call.message.payload.userId).lastActive = clock.now
  /\ \E id \in Tabs :
       /\ StatusOf(store, id) = "away"
       /\ EntryOf(store, id).lastActive = clock.now


(* Re-joining the broker under a user id another socket has joined with *)
\* ed maps each user id to the socket that joined with it most recently
RejoinInit ==
  /\ sessions = PrefilledSessions
  /\ sock = PrefilledSockets
  /\ emitted = <<>>
  /\ call = [kind |-> "none"]
  /\ doc = QuietDoc
  /\ cl = <<>>
  /\ up = <<>>
  /\ down = <<>>
  /\ relayLog = <<>>
  /\ store = <<>>
  /\ tab = <<>>
  /\ pend = <<>>
  /\ clock = StartClock
  /\ ot = <<>>
  /\ hist = <<>>
  /\ conn = <<>>
  /\ rx = <<>>
  /\ ed = [k \in 1..NumPrefilled |-> k]

\* the join handler accepted the join when it acknowledged it with success
JoinAccepted == \E i \in DOMAIN emitted' :
                  /\ emitted'[i].event = "connection_ack"
                  /\ emitted'[i].data.success

RejoinJoin ==
  /\ \E s \in DynamicSockets : \E userId \in JoinUserIds(s) :
       /\ Join(s, "s1", userId, NameOf(userId))
       /\ ed' = IF JoinAccepted THEN (userId :> s) @@ ed ELSE ed
  /\ UNCHANGED <<doc, cl, up, down, relayLog, store, tab, pend, clock, ot,
                 hist, conn, rx>>

RejoinDisconnect ==
  /\ \E s \in DisconnectSockets : Disconnect(s)
  /\ UNCHANGED nonBrokerVars

RejoinNext ==
  \/ RejoinJoin
  \/ RejoinDisconnect

RejoinSpec == RejoinInit /\ [][RejoinNext]_vars

\* C38: a participant whose most recently joined socket is still connected is
\* in the session's participant list, even after the disconnect of an older
\* socket that had joined with the same user id.
C38_NewestSocketKeepsParticipant ==
  \A u \in DOMAIN ed :
    (sock[ed[u]].open /\ sock[ed[u]].currentUser = Some([id |-> u]))
      => u \in Ids(sessions["s1"].users)


(* Clients of the local transport that are not connected *)
\* C39: a client that is not connected, its connect() refused or disconnect()
\* called, handles a storage event without writing the shared participant list
\* and without broadcasting a message.
C39_NotConnectedStaysSilent ==
  [][\A t \in Tabs :
       (~tab[t].connected /\ pend[t] # <<>> /\ pend'[t] = Tail(pend[t]))
         => /\ store' = store
            /\ \A o \in Tabs \ {t} : pend'[o] = pend[o]]_vars


(* Presence changes and the broadcast of the participant list *)
\* a participant of the list before is gone from the list after, or has
\* another status there
PresenceChanged(before, after) ==
  \E i \in DOMAIN before :
    \/ before[i].id \notin Ids(after)
    \/ \E j \in DOMAIN after : /\ after[j].id = before[i].id
                                /\ after[j].status # before[i].status

\* the events of the step carry a sync message with the list to the room
SyncBroadcast(table, sid, users) ==
  \E i \in DOMAIN emitted' :
    /\ emitted'[i].event = "message"
    /\ emitted'[i].data.type = "sync"
    /\ emitted'[i].data.payload.users = users
    /\ emitted'[i].to = Room(table, sid)

\* C35: every change of a participant's presence (status change, removal) is
\* followed by a broadcast of a sync message that carries the full current
\* participant list; stated here for the broker's session s1.
C35_PresenceChangeBroadcastsSync ==
  [][("s1" \in DOMAIN sessions /\ "s1" \in DOMAIN sessions'
        /\ PresenceChanged(sessions["s1"].users, sessions'["s1"].users))
       => SyncBroadcast(sock', "s1", sessions'["s1"].users)]_vars

(* The broker client with its auto-reconnect, driven by the editor *)
MaxCalls == 4
MaxEvents == 4
MaxDisconnects == 1
MaxRunning == 2

\* a socket made by connectWithRetry for call k: its handlers and its 5 s
\* timeout close over the call's ids and over retriesLeft; cur marks the one
\* this.socket refers to
NewSocket(k, retriesLeft) ==
  [call |-> k, retriesLeft |-> retriesLeft, stage |-> "opening",
   timeout |-> TRUE, cur |-> TRUE]

\* socket.connected
SocketConnected(x) == x.stage \in {"up", "acked"}

\* a socket the client has replaced does nothing any more once its timeout
\* has fired
Spent(x) == ~x.timeout /\ ~x.cur

Sockets2(c) == BagToSet(c.socks)
Current(c) == {x \in Sockets2(c) : x.cur}

\* socket x of the client is henceforth y
Replace(c, x, y) ==
  [c EXCEPT !.socks = IF Spent(y) THEN @ (-) SetToBag({x})
                      ELSE (@ (-) SetToBag({x})) (+) SetToBag({y})]

\* this.socket = s
Assign(c, s) ==
  LET old == Current(c)
      kept == {[x EXCEPT !.cur = FALSE] : x \in {o \in old : ~Spent([o EXCEPT !.cur = FALSE])}}
  IN [c EXCEPT !.socks = ((@ (-) SetToBag(old)) (+) SetToBag(kept))
                           (+) SetToBag(s)]

\* isConnected()
ClientIsConnected(c) ==
  /\ c.connected
  /\ \E x \in Current(c) : SocketConnected(x)

\* the promise of call k settles once; the editor leaves collaboration mode
\* when its connect() resolved false, reconnectWithDelay's then-callback
\* clears reconnecting
Settle(c, k, value) ==
  IF c.calls[k].resolved # "pending" THEN c
  ELSE [c EXCEPT !.calls[k].resolved = value,
                 !.reconnecting = IF c.calls[k].origin = "reconnect"
                                  THEN FALSE ELSE @,
                 !.mode = IF c.calls[k].origin = "editor" /\ value = "false"
                          THEN FALSE ELSE @]

\* connectWithRetry(sessionId, userId, userName, retriesLeft) of call k
ClientConnectWithRetry(c, k, retriesLeft) ==
  IF ClientIsConnected(c) /\ c.hasSession THEN Settle(c, k, "true")
  ELSE Assign(c, {NewSocket(k, retriesLeft)})

\* connect(sessionId, userId, userName): a new call
ClientConnect(c, origin, ids) ==
  ClientConnectWithRetry(
    [c EXCEPT !.calls = Append(@, [origin |-> origin, ids |-> ids,
                                   resolved |-> "pending"])],
    Len(c.calls) + 1, maxRetries)

\* handleConnectionFailure(resolve, .., retriesLeft) of call k
ClientHandleConnectionFailure(c, k, retriesLeft) ==
  IF retriesLeft > 0
  THEN [c EXCEPT !.retry = @ (+) SetToBag({<<k, retriesLeft>>})]
  ELSE Settle(c, k, "false")

\* reconnectWithDelay(sessionId, userId, userName): a pending timer is
\* replaced
ReconnectWithDelay(c, ids) == [c EXCEPT !.reconnectTimer = Some(ids)]

\* the disconnect handler of socket x
OnDisconnect(c, x) ==
  LET c1 == [Replace(c, x, [x EXCEPT !.stage = "down"])
               EXCEPT !.connected = FALSE, !.notified = "false"]
  IN IF c1.hasSession /\ ~c1.reconnecting
     THEN ReconnectWithDelay([c1 EXCEPT !.reconnecting = TRUE],
                             c.calls[x.call].ids)
     ELSE c1

\* disconnect(): socket.disconnect() emits the disconnect event of a
\* connected socket before it returns
ClientDisconnect(c) ==
  IF ~c.connected \/ Current(c) = {} THEN c
  ELSE LET x == CHOOSE y \in Current(c) : TRUE
           c1 == [c EXCEPT !.reconnecting = FALSE, !.reconnectTimer = None]
           c2 == IF SocketConnected(x) THEN OnDisconnect(c1, x)
                 ELSE Replace(c1, x, [x EXCEPT !.stage = "down"])
       IN [Assign(c2, {}) EXCEPT !.connected = FALSE, !.hasSession = FALSE,
                                 !.notified = "false"]

IdleClient ==
  [connected |-> FALSE, hasSession |-> FALSE, reconnecting |-> FALSE,
   reconnectTimer |-> None, socks |-> EmptyBag, retry |-> EmptyBag,
   calls |-> <<>>, notified |-> "none", mode |-> FALSE, check |-> FALSE,
   explicit |-> FALSE, joined |-> FALSE, lost |-> None, events |-> 0,
   disconnects |-> 0]

\* the client once the editor's first connect() has been acknowledged
EstablishedClient ==
  [IdleClient EXCEPT
     !.connected = TRUE, !.hasSession = TRUE, !.notified = "true",
     !.mode = TRUE, !.joined = TRUE,
     !.calls = <<[origin |-> "editor", ids |-> 1, resolved |-> "true"]>>,
     !.socks = SetToBag({[NewSocket(1, maxRetries) EXCEPT !.stage = "acked",
                                                          !.timeout = FALSE]})]

\* the calls of connect() made, and the one a pending reconnect timer makes
Planned(c) == Len(c.calls) + (IF c.reconnectTimer # None THEN 1 ELSE 0)

\* the calls with a timer pending, and the one a pending reconnect timer makes
Running(c) ==
  Cardinality({k \in DOMAIN c.calls :
                 \/ \E t \in BagToSet(c.retry) : t[1] = k
                 \/ \E x \in Sockets2(c) : x.call = k /\ x.timeout})
    + (IF c.reconnectTimer # None THEN 1 ELSE 0)

\* the editor and the network start what makes one more call while fewer
\* than MaxRunning are running
MayStart(c) == Planned(c) < MaxCalls /\ Running(c) < MaxRunning

ReconnInit ==
  /\ sessions = <<>>
  /\ sock = <<>>
  /\ emitted = <<>>
  /\ call = [kind |-> "none"]
  /\ doc = QuietDoc
  /\ cl = <<>>
  /\ up = <<>>
  /\ down = <<>>
  /\ relayLog = <<>>
  /\ store = None
  /\ tab = <<>>
  /\ pend = <<>>
  /\ clock = StartClock
  /\ ot = <<>>
  /\ hist = <<>>
  /\ conn = EstablishedClient
  /\ rx = <<>>
  /\ ed = <<>>

\* the editor turns collaboration mode off: disconnectWebSocket
EditorToggleOff ==
  /\ conn.mode
  /\ conn.disconnects < MaxDisconnects
  /\ MayStart(conn)
  /\ conn' = [ClientDisconnect(conn) EXCEPT !.mode = FALSE, !.explicit = TRUE,
                                            !.joined = FALSE, !.lost = None,
                                            !.disconnects = @ + 1]
  /\ call' = [kind |-> "disconnect"]
  /\ UNCHANGED connFrameNoCall

\* the editor's 10 s connection check finds the client not connected
EditorCheck ==
  /\ conn.mode
  /\ ~conn.check
  /\ ~ClientIsConnected(conn)
  /\ conn' = [conn EXCEPT !.check = TRUE]
  /\ call' = [kind |-> "check"]
  /\ UNCHANGED connFrameNoCall

\* one second later: disconnect(), then connectToWebSocket
EditorReconnect ==
  /\ conn.check
  /\ MayStart(ClientDisconnect(conn))
  /\ conn' = ClientConnect([ClientDisconnect(conn) EXCEPT
                              !.check = FALSE, !.explicit = FALSE,
                              !.joined = FALSE],
                           "editor", Len(conn.calls) + 1)
  /\ call' = [kind |-> "connect"]
  /\ UNCHANGED connFrameNoCall

\* the connect event of socket x: join is emitted; the network serves the
\* socket the client made last, a socket it has replaced stays as it is
ReconnSocketConnect ==
  /\ \E x \in Current(conn) :
       /\ x.stage = "opening"
       /\ conn.events < MaxEvents
       /\ conn' = [Replace(conn, x, [x EXCEPT !.stage = "up"])
                     EXCEPT !.joined = TRUE, !.events = @ + 1]
       /\ call' = [kind |-> "join", socket |-> x]
  /\ UNCHANGED connFrameNoCall

\* connection_ack on socket x: the broker accepts the join
ReconnAck ==
  /\ \E x \in Current(conn) :
       /\ x.stage = "up"
       /\ conn.events < MaxEvents
       /\ conn' = Settle([Replace(conn, x, [x EXCEPT !.stage = "acked"])
                           EXCEPT !.events = @ + 1,
                                  !.connected = TRUE, !.hasSession = TRUE,
                                  !.reconnecting = FALSE,
                                  !.notified = "true", !.lost = None],
                         x.call, "true")
       /\ call' = [kind |-> "ack", socket |-> x]
  /\ UNCHANGED connFrameNoCall

\* the connection of socket x is lost
Established(c, x) == c.connected /\ x.cur /\ x.stage = "acked"

ReconnSocketLost ==
  /\ \E x \in Current(conn) :
       /\ SocketConnected(x)
       /\ conn.events < MaxEvents
       /\ MayStart(conn)
       /\ conn' = [OnDisconnect(conn, x) EXCEPT
                     !.events = @ + 1,
                     !.lost = IF Established(conn, x)
                              THEN Some(conn.calls[x.call].ids)
                              ELSE @]
       /\ call' = [kind |-> "lost", socket |-> x,
                   established |-> Established(conn, x)]
  /\ UNCHANGED connFrameNoCall

\* the 5 s timeout of socket x
ReconnTimeout ==
  /\ \E x \in Sockets2(conn) :
       /\ x.timeout
       /\ conn' =
            IF ~conn.connected
            THEN ClientHandleConnectionFailure(
                   Replace(conn, x, [x EXCEPT !.timeout = FALSE]),
                   x.call, x.retriesLeft)
            ELSE Replace(conn, x, [x EXCEPT !.timeout = FALSE])
       /\ call' = [kind |-> "timeout", socket |-> x]
  /\ UNCHANGED connFrameNoCall

\* a 1 s timer set by handleConnectionFailure
ReconnRetry ==
  /\ \E t \in BagToSet(conn.retry) :
       /\ conn' = ClientConnectWithRetry(
                    [conn EXCEPT !.retry = @ (-) SetToBag({t})], t[1], t[2] - 1)
       /\ call' = [kind |-> "retry", of |-> t[1]]
  /\ UNCHANGED connFrameNoCall

\* the 2 s timer set by reconnectWithDelay
ReconnTimer ==
  /\ conn.reconnectTimer # None
  /\ conn' = ClientConnect([conn EXCEPT !.reconnectTimer = None],
                           "reconnect", conn.reconnectTimer[1])
  /\ call' = [kind |-> "reconnect"]
  /\ UNCHANGED connFrameNoCall

ReconnNext ==
  \/ EditorToggleOff
  \/ EditorCheck
  \/ EditorReconnect
  \/ ReconnSocketConnect
  \/ ReconnAck
  \/ ReconnSocketLost
  \/ ReconnTimeout
  \/ ReconnRetry
  \/ ReconnTimer

ReconnSpec == ReconnInit /\ [][ReconnNext]_vars

\* C37: after an explicit disconnect(), and until connect() is called again,
\* the client has no reconnect scheduled, is not connected and has sent no
\* join.
C37_NoReconnectAfterDisconnect ==
  conn.explicit =>
    /\ conn.reconnectTimer = None
    /\ ~conn.connected
    /\ ~conn.joined

\* the step that ends in this state was a timer of the client firing
TimerFired == call'.kind \in {"timeout", "retry", "reconnect"}

\* C32: after disconnect() has returned no timer of the client fires with an
\* effect: no call or socket is made, no timer is set, no flag changes.
C32_NoTimerEffectAfterDisconnect ==
  [][(conn.explicit /\ TimerFired)
       => /\ conn'.calls = conn.calls
          /\ conn'.connected = conn.connected
          /\ conn'.reconnecting = conn.reconnecting
          /\ conn'.mode = conn.mode
          /\ BagCardinality(conn'.socks) <= BagCardinality(conn.socks)
          /\ BagCardinality(conn'.retry) <= BagCardinality(conn.retry)
          /\ conn'.reconnectTimer = conn.reconnectTimer]_vars

\* the reconnects whose connect() has not resolved yet and which have an
\* attempt waiting for its answer or a retry timer pending
ReconnectsRunning(c) ==
  {k \in DOMAIN c.calls :
     /\ c.calls[k].origin = "reconnect"
     /\ c.calls[k].resolved = "pending"
     /\ \/ \E t \in BagToSet(c.retry) : t[1] = k
        \/ \E x \in Sockets2(c) : x.call = k /\ x.timeout}

\* C31: at most one auto-reconnect is pending or in progress at any time:
\* a disconnect event arriving while one is does not start another. Stated
\* for the runs in which the editor has not called disconnect().
C31_OneReconnectAtATime ==
  conn.disconnects = 0 =>
    Cardinality(ReconnectsRunning(conn))
      + (IF conn.reconnectTimer # None THEN 1 ELSE 0) <= 1

\* the timers of the client and of the editor fire
ReconnFairSpec ==
  /\ ReconnSpec
  /\ WF_vars(ReconnTimeout)
  /\ WF_vars(ReconnRetry)
  /\ WF_vars(ReconnTimer)
  /\ WF_vars(EditorCheck)
  /\ WF_vars(EditorReconnect)

\* C33: every call of connect() eventually resolves, true or false, provided
\* the timers fire.
C33_EveryConnectResolves ==
  \A k \in 1..MaxCalls :
    (k \in DOMAIN conn.calls /\ conn.calls[k].resolved = "pending")
      ~> (k \in DOMAIN conn.calls /\ conn.calls[k].resolved # "pending")

\* a connection attempt is scheduled or waits for its answer
Trying(c) ==
  \/ c.reconnectTimer # None
  \/ c.check
  \/ c.retry # EmptyBag
  \/ \E x \in Sockets2(c) : x.timeout /\ x.stage # "acked"

\* the handlers hear false when an established connection is lost
LossNotified ==
  [][(call'.kind = "lost" /\ call'.established)
       => conn'.notified = "false"]_vars

\* a reconnect with the ids of the lost connection is made
LossReconnects ==
  (conn.lost # None)
    ~> (\/ conn.lost = None
        \/ \E k \in DOMAIN conn.calls :
             /\ conn.calls[k].origin = "reconnect"
             /\ conn.calls[k].ids = conn.lost[1])

\* the session is restored or an attempt to restore it is under way,
\* again and again, in the runs in which the editor does not call
\* disconnect()
KeepsTrying ==
  []<>(conn.disconnects > 0 \/ conn.lost = None \/ conn.connected
         \/ Trying(conn))

\* C34: when an established connection is lost the connection-status handlers
\* hear false, a reconnect with the same ids is eventually attempted without
\* the caller acting, and if it fails the client keeps trying to restore the
\* session rather than staying disconnected.
C34_LostConnectionIsRestored ==
  /\ LossNotified
  /\ LossReconnects
  /\ KeepsTrying

====
